---- MODULE Spec2Model ----
(***************************************************************************)
(* Session client of the teacher review platform: the token lifecycle of   *)
(* frontend/src/context/AuthContext.tsx (AuthProvider) and the request     *)
(* client of frontend/src/api/client.ts, driven against the authentication *)
(* endpoints of the backend.  The backend is not part of the sources; its  *)
(* endpoints (Token Issuer, Refresh Registry) are modelled from the        *)
(* design document.                                                        *)
(*                                                                         *)
(* A token pair issued by the server is a number 1..MaxPairs naming both   *)
(* the access token and the refresh token of that pair; 0 is null.         *)
(* JavaScript runs each response handler to completion (the promise chain  *)
(* of one response drains before the next network event is handled), so    *)
(* every handler is one action.                                            *)
(*                                                                         *)
(* Beside the session the module holds the review form                     *)
(* (frontend/src/components/ReviewForm.tsx) and the role checks: hasRole   *)
(* of AuthProvider and the Authorization Gate of the backend.  Each has    *)
(* its own specification; the session has one for a single registered      *)
(* user (Spec), one that starts over what an earlier page left in durable  *)
(* storage (BootSpec), one with a second account (SwitchSpec) and one with *)
(* a role change (RoleSpec).                                               *)
(***************************************************************************)
EXTENDS Integers, FiniteSets, Sequences, TLC

\* ---- bounds ----
MaxReq == 2
MaxPairs == 2
MaxPad == 1
MaxCore == 11
MaxRating == 2
MaxTeachers == 2
MaxToggles == 2
MaxSaves == 2

\* ---- constants of the program ----
MinDescriptionLength == 10

\* ---- request slots ----
ApiSlots == 1..MaxReq
LoginSlot == MaxReq + 1
MeSlot == MaxReq + 2
LogoutSlot == MaxReq + 3
RegisterSlot == MaxReq + 4
Slots == 1..(MaxReq + 4)
\* slots whose request can enter the refresh path and so own a refresh call
RefreshSlots == ApiSlots \cup {MeSlot, LogoutSlot}

\* The behaviours in which a second account signs in on the same browser
\* need two more pairs than the others.
SwitchPairs == MaxPairs + 2
Tokens == 1..SwitchPairs
NoToken == 0

\* user ids of the Credential Store; Nobody is no user
TheUser == 1
OtherUser == 2
Nobody == 0
Users == {TheUser, OtherUser}
Roles == {"admin", "editor", "viewer"}

\* user: AuthenticatedUser | null.  null is the profile of nobody.
NoUser == [id |-> Nobody, roles |-> {}]

VARIABLES
  client,      \* the session held by AuthProvider and the request client
  req,         \* the request instances (axios configs) and their promises
  call,        \* the /auth/refresh call started on behalf of each request
  loginPc,     \* where the login() promise is
  loginCred,   \* the credentials of the login in progress
  logoutBody,  \* refresh_token in the body of the /auth/logout request
  initPc,      \* where the startup effect (init) is
  registry,    \* Refresh Registry: state of each refresh token
  nextTok,     \* Token Issuer: the next pair to issue
  expiredUpTo, \* access tokens 1..expiredUpTo are past their expiry
  redeemed,    \* history: refresh tokens redeemed successfully
  doubleSpent, \* history: refresh tokens redeemed successfully twice
  logoutRevoked, \* history: refresh tokens revoked by /auth/logout
  owner,       \* Token Issuer: the user each pair is bound to
  claims,      \* Token Issuer: the role names in each access token
  storeRoles,  \* Credential Store: the role assignments of each user
  registered,  \* Credential Store: the users that exist
  roleChangedAt, \* history: the next pair when a role assignment changed
  pairCap,     \* the number of pairs issued in the behaviours explored
  form,        \* ReviewForm
  gate,        \* a role check: its inputs and its verdicts
  teacherPage, \* TeacherDetail
  loginPage,   \* LoginPage
  registerPage, \* RegisterPage
  admin,       \* AdminDashboard
  backend      \* the catalog and the accounts the dashboard manages

storeVars == <<storeRoles, registered, roleChangedAt>>

serverVars == <<registry, nextTok, expiredUpTo, redeemed, doubleSpent,
                logoutRevoked, owner, claims, storeVars>>

sessionVars == <<client, req, call, loginPc, loginCred, logoutBody, initPc,
                 serverVars, pairCap>>

pageVars == <<teacherPage, loginPage, registerPage, admin, backend>>

vars == <<sessionVars, form, gate, pageVars>>

\* ---- frontend/src/api/client.ts ----

Url(r) ==
  IF r \in ApiSlots THEN "/api/teachers"
  ELSE IF r = LoginSlot THEN "/auth/login"
  ELSE IF r = MeSlot THEN "/auth/me"
  ELSE IF r = RegisterSlot THEN "/auth/register"
  ELSE "/auth/logout"

\* setAccessToken: the default Authorization header of the request client
setAccessToken(c, token) == [c EXCEPT !.header = token]

\* ---- frontend/src/context/AuthContext.tsx ----

\* variant: the tokens are stored without the default header being set
persistTokens_NoHeader(c, pair) ==
  [c EXCEPT
     !.storageAccess = pair,
     !.storageRefresh = pair,
     !.accessToken = pair,
     !.refreshTokenRef = pair]

persistTokens(c, pair) ==
  [setAccessToken(c, pair) EXCEPT
     !.storageAccess = pair,
     !.storageRefresh = pair,
     !.accessToken = pair,
     !.refreshTokenRef = pair]

\* variant: the refresh-token key is left in durable storage
clearTokens_KeepsStoredRefresh(c) ==
  [setAccessToken(c, NoToken) EXCEPT
     !.storageAccess = NoToken,
     !.accessToken = NoToken,
     !.refreshTokenRef = NoToken]

clearTokens(c) ==
  [setAccessToken(c, NoToken) EXCEPT
     !.storageAccess = NoToken,
     !.storageRefresh = NoToken,
     !.accessToken = NoToken,
     !.refreshTokenRef = NoToken]

\* handleLogout, its local part: clearTokens(); setUser(null)
handleLogoutLocal(c) == [clearTokens(c) EXCEPT !.user = NoUser]

\* variant: /auth/logout is called whenever the server is to be notified
handleLogoutNotifies_Always(notifyServer, refreshToken) == notifyServer

\* handleLogout(notifyServer): is /auth/logout called
handleLogoutNotifies(notifyServer, refreshToken) ==
  notifyServer /\ refreshToken # NoToken

\* variant: no request is exempt from the refresh path
isAuthRoute_Never(url) == FALSE

isAuthRoute(url) == url \in {"/auth/login", "/auth/register", "/auth/refresh"}

\* variant: the guard without the _retry marker
ShouldRefresh_NoRetryMarker(status, url, refreshToken, retry) ==
  /\ status = 401
  /\ ~isAuthRoute(url)
  /\ refreshToken # NoToken

\* variant: every error response enters the refresh path
ShouldRefresh_AnyStatus(status, url, refreshToken, retry) ==
  /\ ~isAuthRoute(url)
  /\ refreshToken # NoToken
  /\ ~retry

\* the guard of the response interceptor's refresh path
ShouldRefresh(status, url, refreshToken, retry) ==
  /\ status = 401
  /\ ~isAuthRoute(url)
  /\ refreshToken # NoToken
  /\ ~retry

\* variant: the error of the refresh call is rejected instead
RejectedError_OfRefresh(error, refreshError) == refreshError

\* the error the interceptor rejects with after its refresh path
RejectedError(error, refreshError) == error

\* variant: the empty list of roles is granted to every user
hasRole_EmptyAllows(user, roles) ==
  IF user = NoUser THEN FALSE
  ELSE roles = {} \/ \E role \in roles : role \in user.roles

\* hasRole(...roles); roleNames is user.roles.map(role => role.name)
hasRole(user, roles) ==
  IF user = NoUser \/ roles = {} THEN FALSE
  ELSE LET roleNames == user.roles
       IN \E role \in roles : role \in roleNames

\* variant: the retry keeps the header it was first sent with
RetryAuthorization_Stale(newAccessToken, oldAuthorization) == oldAuthorization

\* the Authorization header put on the retried request
RetryAuthorization(newAccessToken, oldAuthorization) == newAccessToken

\* variant: register calls login whatever became of /auth/register
registerProceeds_Always(st) == TRUE

\* register: await authApi.register(payload) throws unless the request
\* resolved, and login(payload) follows it
registerProceeds(st) == st = "ok"

\* variant: the init effect ignores the failure of /auth/me
InitFailed_KeepsSession(c) == c

\* the catch block of the init effect: await handleLogout(false)
InitFailed(c) == handleLogoutLocal(c)

\* refreshAccessToken's catch block followed by the interceptor's catch
\* block: handleLogout(false) runs in each (the second finds no refresh
\* token).  The failed /auth/refresh response passes the interceptor first,
\* which rejects it as an auth route.
RefreshFailed(c) == handleLogoutLocal(handleLogoutLocal(c))

RequestError(status) ==
  IF status = 401 THEN "request401"
  ELSE IF status = 400 THEN "request400"
  ELSE "request403"

\* the status of a failed /auth/refresh response; a network error has none
RefreshStatus(why) == IF why = "Network" THEN 0 ELSE 401

\* a request instance: auth is the Authorization header it carries, first
\* (history) the one it was first sent with, retry the _retry marker
NewRequest(authorization) ==
  [st |-> "sent", auth |-> authorization, first |-> authorization,
   retry |-> FALSE, sends |-> 1, err |-> "none"]

IdleRequest ==
  [st |-> "idle", auth |-> NoToken, first |-> NoToken, retry |-> FALSE,
   sends |-> 0, err |-> "none"]

\* a /auth/refresh call; nested (history): it was started by the interceptor
\* for the error of another /auth/refresh call
NoCall ==
  [cst |-> "none", token |-> NoToken, pair |-> NoToken, why |-> "none",
   nested |-> FALSE]

NewCall(refreshToken) ==
  [cst |-> "sent", token |-> refreshToken, pair |-> NoToken, why |-> "none",
   nested |-> FALSE]

\* The response interceptor applied to the response `status` of request r:
\* the request record afterwards.  A settled request's headers are no
\* longer read by anything and are dropped from the record.
InterceptedRequest(r, status) ==
  IF status = 200 THEN [req[r] EXCEPT !.st = "ok", !.auth = NoToken]
  ELSE IF ShouldRefresh(status, Url(r), client.refreshTokenRef, req[r].retry)
  THEN [req[r] EXCEPT !.retry = TRUE, !.st = "awaitRefresh"]
  ELSE [req[r] EXCEPT !.st = "rejected", !.auth = NoToken,
                      !.err = RejectedError(RequestError(status), "refreshError")]

\* ... and the refresh call it starts (refreshAccessToken reads the ref and
\* posts /auth/refresh), if any.
InterceptedCall(r, status) ==
  IF status # 200
     /\ ShouldRefresh(status, Url(r), client.refreshTokenRef, req[r].retry)
  THEN NewCall(client.refreshTokenRef)
  ELSE call[r]

\* ---- the backend, from the design document ----

\* the user a pair of credentials belongs to
CredUser(cred) ==
  IF cred = "good" THEN TheUser
  ELSE IF cred = "other" THEN OtherUser
  ELSE Nobody

\* Token Issuer: verifyAccess.  Every access token has the same lifetime, so
\* access tokens expire in the order they were issued.
AccessValid(a) == a # NoToken /\ a < nextTok /\ a > expiredUpTo

\* Refresh Registry: redeem(refreshTokenId)
RedeemOutcome(reg, t) ==
  IF t \notin Tokens \/ reg[t] = "absent" THEN "NotFound"
  ELSE IF reg[t] = "revoked" THEN "Revoked"
  ELSE "ok"

\* variant: the successor is issued without revoking the redeemed token
RegistryAfterRedeem_NoRevoke(reg, t, n) == [reg EXCEPT ![n] = "valid"]

RegistryAfterRedeem(reg, t, n) == [reg EXCEPT ![t] = "revoked", ![n] = "valid"]

\* Refresh Registry: revoke(refreshTokenId), idempotent
RegistryAfterRevoke(reg, t) ==
  IF t \in Tokens /\ reg[t] # "absent" THEN [reg EXCEPT ![t] = "revoked"] ELSE reg

\* /auth/logout requires a bearer access token
LogoutStatus(authorization) == IF AccessValid(authorization) THEN 200 ELSE 401

\* a protected catalog operation: 401 without a valid access token, else
\* allowed or refused by role
ApiStatuses(authorization) ==
  IF AccessValid(authorization) THEN {200, 403} ELSE {401}

MeStatus(authorization) == IF AccessValid(authorization) THEN 200 ELSE 401

\* /auth/me: the profile and roles of the user the access token is bound to
Profile(authorization) ==
  [id |-> owner[authorization], roles |-> storeRoles[owner[authorization]]]

LoginStatus(cred) == IF CredUser(cred) \in registered THEN 200 ELSE 401

\* /auth/register: refused for an email that is registered already
RegisterStatus(cred) ==
  IF CredUser(cred) \in Users \ registered THEN 200 ELSE 400

\* ---- frontend/src/components/ReviewForm.tsx ----

\* a description is a string of spaces and letters: some spaces, a word,
\* some spaces
Pad(n) == [i \in 1..n |-> " "]
Word(n) == [i \in 1..n |-> "a"]
Descriptions ==
  {Pad(l) \o Word(c) \o Pad(t) : l \in 0..MaxPad, c \in 0..MaxCore, t \in 0..MaxPad}

\* String.prototype.trim
RECURSIVE TrimStart(_)
TrimStart(s) == IF s # <<>> /\ Head(s) = " " THEN TrimStart(Tail(s)) ELSE s

RECURSIVE TrimEnd(_)
TrimEnd(s) ==
  IF s # <<>> /\ s[Len(s)] = " " THEN TrimEnd(SubSeq(s, 1, Len(s) - 1)) ELSE s

Trim(s) == TrimEnd(TrimStart(s))

\* the values of the course <select>: "" is "Select a course"
CourseOptions == {"", "1"}

\* Number(courseId)
CourseNumber(courseId) == IF courseId = "1" THEN 1 ELSE 0

\* teacher.id of the teacher the form is opened for
TheTeacher == 1

\* the stars of StarRating; 0 is no rating
Ratings == 1..MaxRating

\* variant: the length of the description as typed is validated
DescriptionTooShort_Untrimmed(description) ==
  Len(description) < MinDescriptionLength

\* description.trim().length < 10
DescriptionTooShort(description) ==
  Len(Trim(description)) < MinDescriptionLength

\* moderationFeedback: null
NoFeedback ==
  [allowed |-> TRUE, blockedReasons |-> {}, message |-> "", suggestion |-> <<>>]

\* ReviewModerationVerdict of a review that may be posted
Allowed ==
  [allowed |-> TRUE, blockedReasons |-> {}, message |-> "ok",
   suggestion |-> <<>>]

\* ReviewModerationVerdict of a blocked review; suggestion <<>> is none
Vetoes ==
  {[allowed |-> FALSE, blockedReasons |-> {reason},
    message |-> "Review needs edits", suggestion |-> s] :
     reason \in {"PERSONAL_ATTACK", "UNSUPPORTED_LANGUAGE"},
     s \in {<<>>, Word(MinDescriptionLength)}}

\* an error response as the catch block reads it: err.response?.status
\* (0 without a response) and err.response?.data?.detail, which is absent,
\* a text or a verdict
ErrorResponses ==
  {[status |-> s, kind |-> "verdict", verdict |-> v] :
     s \in {422, 400}, v \in Vetoes}
  \cup {[status |-> s, kind |-> "none", verdict |-> NoFeedback] :
          s \in {401, 403, 500, 0}}
  \cup {[status |-> s, kind |-> "text", verdict |-> NoFeedback] :
          s \in {401, 422, 500}}

\* the error response carries a moderation veto
IsVeto(e) ==
  e.status \in {422, 400} /\ e.kind = "verdict" /\ ~e.verdict.allowed

\* no request body: nothing was sent
NoPayload == [teacher_id |-> 0, course_id |-> 0, rating |-> 0, text |-> <<>>]

\* reviewData and moderationPayload: the same four values
Payload(f) ==
  [teacher_id |-> TheTeacher, course_id |-> CourseNumber(f.courseId),
   rating |-> f.rating, text |-> Trim(f.description)]

\* resetModerationFeedback
resetModerationFeedback(f) ==
  IF f.moderationFeedback # NoFeedback
  THEN [f EXCEPT !.moderationFeedback = NoFeedback]
  ELSE f

\* variant: the review is built when the verdict arrives, from the fields as
\* they are then
CreateReviewBody_Current(f) == Payload(f)

\* the body of createReview: reviewData, built before the first await
CreateReviewBody(f) == f.reviewData

\* variant: the finally block is missing
HandleError_KeepsSubmitting(f, e) ==
  [f EXCEPT !.error = IF IsVeto(e) THEN @
                      ELSE "Failed to submit review. Please try again.",
            !.moderationFeedback = IF IsVeto(e) THEN e.verdict ELSE @,
            !.pc = "idle"]

\* variant: every failure is shown as the generic error
HandleError_Generic(f, e) ==
  [f EXCEPT !.error = "Failed to submit review. Please try again.",
            !.submitting = FALSE, !.pc = "idle"]

\* variant: a detail in the response goes before the status
HandleError_DetailFirst(f, e) ==
  LET g == IF e.kind = "verdict" /\ ~e.verdict.allowed
           THEN [f EXCEPT !.moderationFeedback = e.verdict]
           ELSE IF e.kind # "none"
           THEN [f EXCEPT !.error = "detail"]
           ELSE IF e.status = 401
           THEN [f EXCEPT !.error = "Your session has expired. Please log in again."]
           ELSE IF e.status = 403
           THEN [f EXCEPT !.error = "You do not have permission to submit reviews."]
           ELSE [f EXCEPT !.error = "Failed to submit review. Please try again."]
  IN [g EXCEPT !.submitting = FALSE, !.pc = "idle"]

\* handleSubmit's catch and finally blocks
HandleError(f, e) ==
  LET g == IF e.status = 422 /\ e.kind = "verdict" /\ ~e.verdict.allowed
           THEN [f EXCEPT !.moderationFeedback = e.verdict]
           ELSE IF e.status = 400 /\ e.kind = "verdict" /\ ~e.verdict.allowed
           THEN [f EXCEPT !.moderationFeedback = e.verdict]
           ELSE IF e.status = 401
           THEN [f EXCEPT !.error = "Your session has expired. Please log in again."]
           ELSE IF e.status = 403
           THEN [f EXCEPT !.error = "You do not have permission to submit reviews."]
           ELSE IF e.kind # "none"
           THEN [f EXCEPT !.error = "detail"]
           ELSE [f EXCEPT !.error = "Failed to submit review. Please try again."]
  IN [g EXCEPT !.submitting = FALSE, !.pc = "idle"]

isLanguageBlock(f) == "UNSUPPORTED_LANGUAGE" \in f.moderationFeedback.blockedReasons

\* variant: the blocked reasons are not looked at
shouldShowSuggestionButton_AnyReason(f) ==
  f.moderationFeedback.suggestion # <<>>

shouldShowSuggestionButton(f) ==
  f.moderationFeedback.suggestion # <<>> /\ ~isLanguageBlock(f)

\* the "Use suggestion" button is rendered: inside the moderation warning,
\* inside the suggestion block
SuggestionButtonShown(f) ==
  /\ f.moderationFeedback # NoFeedback
  /\ f.moderationFeedback.suggestion # <<>>
  /\ shouldShowSuggestionButton(f)

\* ReviewForm as mounted: nothing selected, nothing typed.  reviewData is
\* the constant of that name in the submission in progress.  History:
\* moderated and created are the bodies sent to moderateReview and to
\* createReview by the latest submission, verdict the veto its moderation
\* call was answered with, submitted whether it invoked onSubmit.
FormInit ==
  [rating |-> 0, courseId |-> "", description |-> <<>>, error |-> "none",
   submitting |-> FALSE, moderationFeedback |-> NoFeedback, pc |-> "idle",
   reviewData |-> NoPayload, moderated |-> NoPayload, created |-> NoPayload,
   verdict |-> NoFeedback, submitted |-> FALSE]

\* ---- the Authorization Gate and the role checks of the client ----

Methods == {"GET", "POST", "PUT", "DELETE"}
Resources == {"teachers", "courses", "reviews"}

\* the callers: nobody, or a user with any set of roles
Callers == {NoUser} \cup {[id |-> TheUser, roles |-> R] : R \in SUBSET Roles}

\* variant: an editor may delete
RequiredRoles_EditorDeletes(method, resource) ==
  IF method = "GET" THEN {}
  ELSE IF method = "POST" /\ resource = "reviews" THEN {"admin", "editor", "viewer"}
  ELSE {"admin", "editor"}

\* the role table of the catalog endpoints
RequiredRoles(method, resource) ==
  IF method = "GET" THEN {}
  ELSE IF method = "DELETE" THEN {"admin"}
  ELSE IF method = "POST" /\ resource = "reviews" THEN {"admin", "editor", "viewer"}
  ELSE {"admin", "editor"}

\* authorize(claims, requiredRoles)
authorize(claimRoles, requiredRoles) ==
  claimRoles \cap requiredRoles # {} \/ requiredRoles = {}

\* the answer of the gate to an operation of a caller
GateDecision(caller, method, resource) ==
  LET requiredRoles == RequiredRoles(method, resource)
  IN IF requiredRoles = {} THEN "ok"
     ELSE IF caller = NoUser THEN "Unauthenticated"
     ELSE IF authorize(caller.roles, requiredRoles) THEN "ok"
     ELSE "InsufficientRole"

\* no role check has been made.  client is the answer of hasRole,
\* server the answer of the gate, route what RequireRole renders.
GateInit ==
  [user |-> NoUser, required |-> {}, method |-> "GET", resource |-> "teachers",
   loading |-> FALSE, client |-> "none", server |-> "none", route |-> "none"]

\* ---- frontend/src/components/RequireRole.tsx ----

\* variant: the user is looked at before loading
RequireRole_UserFirst(isLoading, user, allowed) ==
  IF user = NoUser THEN "/login"
  ELSE IF isLoading THEN "Checking your session..."
  ELSE IF ~allowed THEN "/"
  ELSE "children"

\* what RequireRole renders; allowed is the answer of hasRole(...roles)
RequireRole(isLoading, user, allowed) ==
  IF isLoading THEN "Checking your session..."
  ELSE IF user = NoUser THEN "/login"
  ELSE IF ~allowed THEN "/"
  ELSE "children"

\* ---- frontend/src/components/TeacherDetail.tsx ----

\* teacher: null
NoTeacher == 0

\* TeacherDetail as mounted, its effect having called loadTeacherData
TeacherPageInit ==
  [loading |-> TRUE, teacher |-> NoTeacher, error |-> "none",
   showReviewForm |-> FALSE]

\* the reviews section is rendered, and with it the "+ Add Review" button
ReviewsSectionShown(p) == ~p.loading /\ p.error = "none" /\ p.teacher # NoTeacher

\* ---- frontend/src/pages/LoginPage.tsx, RegisterPage.tsx ----

\* what is typed into an email field: some spaces, at most one letter,
\* some spaces
Emails ==
  {Pad(l) \o Word(c) \o Pad(t) : l \in 0..MaxPad, c \in 0..1, t \in 0..MaxPad}

\* what is typed into a password field; "" is nothing
Passwords == {"", "correct horse", "battery staple"}

\* a text field changes by a key stroke: a character is typed at its end or
\* its last character is deleted
KeyStroke(old, new) ==
  \/ Len(new) = Len(old) + 1 /\ SubSeq(new, 1, Len(old)) = old
  \/ Len(new) + 1 = Len(old) /\ SubSeq(old, 1, Len(new)) = new

\* the rejections of login() and register(): err.response.data is an object
\* with a detail, a list of messages, or absent
AuthErrors == {"detail", "list", "plain"}

\* no call was made
NoCredentials == [email |-> <<>>, password |-> ""]

\* LoginPage's catch: the detail or the default message
LoginErrorText(e) ==
  IF e = "detail" THEN "detail"
  ELSE "Unable to login with the provided credentials."

\* RegisterPage's catch: the detail, the first message or the default message
RegisterErrorText(e) ==
  IF e = "detail" THEN "detail"
  ELSE IF e = "list" THEN "msg"
  ELSE "Unable to create your account. Please verify the details and try again."

\* variant: the confirmation is not compared
PasswordsDiffer_Never(password, confirmPassword) == FALSE

\* password !== confirmPassword
PasswordsDiffer(password, confirmPassword) == password # confirmPassword

\* LoginPage as mounted.  History: called is what login() was called with
\* by the latest submission, outcome how that call ended ("resolved" or
\* the error it rejected with), navigated whether navigate('/') ran.
LoginPageInit ==
  [email |-> <<>>, password |-> "", error |-> "none", submitting |-> FALSE,
   pc |-> "idle", called |-> NoCredentials, outcome |-> "none",
   navigated |-> FALSE]

\* RegisterPage as mounted.  History as for LoginPage, of register().
RegisterPageInit ==
  [email |-> <<>>, password |-> "", confirmPassword |-> "", error |-> "none",
   submitting |-> FALSE, pc |-> "idle", called |-> NoCredentials,
   outcome |-> "none", navigated |-> FALSE]

\* variant: navigate('/') sits in the finally block
LoginSettled_NavigatesAlways(p, resolved, e) ==
  LET q == IF resolved THEN p ELSE [p EXCEPT !.error = LoginErrorText(e)]
  IN [q EXCEPT !.navigated = TRUE, !.submitting = FALSE, !.pc = "idle",
               !.outcome = IF resolved THEN "resolved" ELSE e]

\* LoginPage.handleSubmit after login() has settled: navigate('/') or the
\* catch block, then the finally block
LoginSettled(p, resolved, e) ==
  LET q == IF resolved THEN [p EXCEPT !.navigated = TRUE]
           ELSE [p EXCEPT !.error = LoginErrorText(e)]
  IN [q EXCEPT !.submitting = FALSE, !.pc = "idle",
               !.outcome = IF resolved THEN "resolved" ELSE e]

\* RegisterPage.handleSubmit after register() has settled
RegisterSettled(p, resolved, e) ==
  LET q == IF resolved THEN [p EXCEPT !.navigated = TRUE]
           ELSE [p EXCEPT !.error = RegisterErrorText(e)]
  IN [q EXCEPT !.submitting = FALSE, !.pc = "idle",
               !.outcome = IF resolved THEN "resolved" ELSE e]

\* ---- frontend/src/pages/AdminDashboard.tsx ----

TeacherIds == 1..MaxTeachers

\* the users the dashboard lists
AdminUsers == Users

\* no rows: users is [] and userEdits is {}
NoRows == [u \in {} |-> 0]

\* an AuthenticatedUser as the server reports it: its role names and its
\* active flag.  The order of the names in a list plays no part.
UserRow(roleNames, active) == [roles |-> roleNames, is_active |-> active]

\* the effect on [users]: every row's edit state is what the row reports
InitialEdits(users) ==
  [u \in DOMAIN users |->
     [roleNames |-> users[u].roles, isActive |-> users[u].is_active]]

\* handleUserRoleToggle on a row's edit state
ToggleRole(edit, roleName) ==
  [edit EXCEPT !.roleNames = IF roleName \in @ THEN @ \ {roleName}
                             ELSE @ \cup {roleName}]

\* handleUserActiveToggle on a row's edit state
ToggleActive(edit) == [edit EXCEPT !.isActive = ~@]

\* the UserAdminUpdate that handleSaveUser builds
UpdatePayload(edit) == [role_names |-> edit.roleNames, is_active |-> edit.isActive]

\* no updateUser call is in flight
NoUpdate == [role_names |-> {}, is_active |-> FALSE]

\* the row the server answers updateUser with
UpdatedRow(payload) == UserRow(payload.role_names, payload.is_active)

\* the teachers of a response, in the order of their ids
RECURSIVE TeacherList(_)
TeacherList(ids) ==
  IF ids = {} THEN <<>>
  ELSE LET first == CHOOSE t \in ids : \A o \in ids : t <= o
       IN <<first>> \o TeacherList(ids \ {first})

\* prev.filter((t) => t.id !== id)
WithoutTeacher(teachers, id) == SelectSeq(teachers, LAMBDA t : t # id)

\* variant: the row is removed whatever the server answered
AfterDeleteFailed_Removes(teachers, id) == WithoutTeacher(teachers, id)

\* handleDeleteTeacher's catch leaves the list as it is
AfterDeleteFailed(teachers, id) == teachers

Listed(teachers) == {teachers[i] : i \in DOMAIN teachers}

\* what a failed call carries: a detail, a list of messages, or only the
\* message of the error
AdminErrors == {"detail", "list", "message"}

\* captureError
captureError(e, fallbackMessage) ==
  IF e = "detail" THEN "detail"
  ELSE IF e = "list" THEN "msg"
  ELSE IF e = "message" THEN "err.message"
  ELSE fallbackMessage

\* resetStatus
resetStatus(a) == [a EXCEPT !.statusMessage = "none", !.errorMessage = "none"]

\* variant: the lists are emptied when the load fails
LoadFailed_ClearsLists(a, e) ==
  [a EXCEPT !.teachers = <<>>, !.courses = {}, !.reviews = {}, !.roles = {},
            !.users = NoRows,
            !.errorMessage = captureError(e, "Failed to load admin data"),
            !.loading = FALSE]

\* loadData: Promise.all rejected with e; the catch and finally blocks
LoadFailed(a, e) ==
  [a EXCEPT !.errorMessage = captureError(e, "Failed to load admin data"),
            !.loading = FALSE]

\* the five lists of the dashboard
AdminLists(a) == <<a.teachers, a.courses, a.reviews, a.roles, a.users>>

\* review.id of the review the server holds
TheReview == 1

\* the catalog and the accounts the server holds
BackendInit ==
  [teachers |-> TeacherIds, courses |-> {CourseNumber("1")},
   reviews |-> {TheReview}, roles |-> Roles,
   users |-> [u \in AdminUsers |->
                UserRow(IF u = TheUser THEN {"admin"} ELSE {"viewer"}, TRUE)]]

\* AdminDashboard as mounted, its effect having called loadData.  deleting
\* and saving are the deleteTeacher and updateUser calls in flight, payload
\* the body of the latest updateUser call of a row.  History: expected is
\* what each row's server-reported state becomes under the toggles made
\* since, toggles and saves count them.
AdminInit ==
  [loading |-> TRUE, teachers |-> <<>>, courses |-> {}, reviews |-> {},
   roles |-> {}, users |-> NoRows,
   userEdits |-> NoRows, statusMessage |-> "none", errorMessage |-> "none",
   deleting |-> [id \in TeacherIds |-> "idle"],
   saving |-> [u \in AdminUsers |-> "idle"],
   payload |-> [u \in AdminUsers |-> NoUpdate],
   expected |-> NoRows, toggles |-> 0, saves |-> 0]

\* ---- initial state ----

\* AuthProvider as constructed, before its effects have run, over the durable
\* storage of a browser that holds `stored`
Mounted(storedAccess, storedRefresh) ==
  /\ client = [storageAccess |-> storedAccess, storageRefresh |-> storedRefresh,
               header |-> NoToken, accessToken |-> NoToken,
               refreshTokenRef |-> NoToken, user |-> NoUser]
  /\ req = [r \in Slots |-> IdleRequest]
  /\ call = [r \in RefreshSlots |-> NoCall]
  /\ loginPc = "idle"
  /\ loginCred = "none"
  /\ logoutBody = NoToken
  /\ initPc = "mount"
  /\ form = FormInit
  /\ teacherPage = TeacherPageInit
  /\ loginPage = LoginPageInit
  /\ registerPage = RegisterPageInit
  /\ admin = AdminInit
  /\ backend = BackendInit

\* the Credential Store holds one user, registered as a viewer
StoreInit ==
  /\ storeRoles = [u \in Users |-> IF u = TheUser THEN {"viewer"} ELSE {}]
  /\ registered = {TheUser}
  /\ roleChangedAt = 0

\* no token has been issued
ServerInit ==
  /\ registry = [t \in Tokens |-> "absent"]
  /\ owner = [t \in Tokens |-> Nobody]
  /\ claims = [t \in Tokens |-> {}]
  /\ nextTok = 1
  /\ expiredUpTo = 0
  /\ redeemed = {}
  /\ doubleSpent = {}
  /\ logoutRevoked = {}

\* a browser that has never held a session
Init ==
  /\ Mounted(NoToken, NoToken)
  /\ StoreInit
  /\ ServerInit
  /\ pairCap = MaxPairs
  /\ gate = GateInit

InFlight(r) == req[r].st \in {"sent", "retried", "awaitRefresh"}
Settled(r) == req[r].st \in {"ok", "rejected"}

\* loading: the startup effect has not finished
loading == initPc # "done"

\* ---- startup ----

\* the init effect up to its first await
Hydrate ==
  /\ initPc = "mount"
  /\ LET initialAccess == client.storageAccess
         initialRefresh == client.storageRefresh
     IN IF initialAccess # NoToken /\ initialRefresh # NoToken
        THEN /\ client' = [setAccessToken(client, initialAccess) EXCEPT
                             !.accessToken = initialAccess,
                             !.refreshTokenRef = initialRefresh]
             /\ req' = [req EXCEPT ![MeSlot] = NewRequest(client'.header)]
             /\ initPc' = "me"
        ELSE /\ initPc' = "done"
             /\ UNCHANGED <<client, req>>
  /\ UNCHANGED <<call, loginPc, loginCred, logoutBody, serverVars, pairCap,
                 form, gate, pageVars>>

\* ---- the user ----
\* While loading, App renders neither the pages nor the logout button, so
\* nothing can be invoked.

\* login(credentials): authApi.login is posted
Login(cred) ==
  /\ ~loading
  /\ loginPc \notin {"registering", "posting", "me"}
  /\ nextTok <= pairCap
  /\ loginPc' = "posting"
  /\ loginCred' = cred
  /\ req' = [req EXCEPT ![LoginSlot] = NewRequest(client.header)]
  /\ UNCHANGED <<client, call, logoutBody, initPc, serverVars, pairCap, form,
                 gate, pageVars>>

\* register(payload): authApi.register is posted
Register(cred) ==
  /\ ~loading
  /\ loginPc \notin {"registering", "posting", "me"}
  /\ nextTok <= pairCap
  /\ loginPc' = "registering"
  /\ loginCred' = cred
  /\ req' = [req EXCEPT ![RegisterSlot] = NewRequest(client.header)]
  /\ UNCHANGED <<client, call, logoutBody, initPc, serverVars, pairCap, form,
                 gate, pageVars>>

\* a component issues a catalog request
Send(r) ==
  /\ ~loading
  /\ r \in ApiSlots
  /\ req[r].st = "idle"
  /\ \A q \in ApiSlots : q < r => req[q].st # "idle"
  /\ req' = [req EXCEPT ![r] = NewRequest(client.header)]
  /\ UNCHANGED <<client, call, loginPc, loginCred, logoutBody, initPc,
                 serverVars, pairCap, form, gate, pageVars>>

\* logout(): handleLogout(true).  At most one /auth/logout request is
\* outstanding at a time.
Logout ==
  LET refreshToken == client.refreshTokenRef
      cleared == handleLogoutLocal(client)
  IN /\ ~loading
     /\ client' = cleared
     /\ IF handleLogoutNotifies(TRUE, refreshToken)
        THEN /\ ~InFlight(LogoutSlot)
             /\ req' = [req EXCEPT ![LogoutSlot] = NewRequest(client'.header)]
             /\ logoutBody' = refreshToken
        ELSE UNCHANGED <<req, logoutBody>>
     /\ UNCHANGED <<call, loginPc, loginCred, initPc, serverVars, pairCap,
                    form, gate, pageVars>>

\* ---- responses ----

\* /auth/register is served and its response reaches register(), which
\* calls login(payload)
RegisterResponse ==
  /\ req[RegisterSlot].st = "sent"
  /\ loginPc = "registering"
  /\ LET status == RegisterStatus(loginCred)
         q == InterceptedRequest(RegisterSlot, status)
     IN /\ IF status = 200
           THEN /\ registered' = registered \cup {CredUser(loginCred)}
                /\ storeRoles' =
                     [storeRoles EXCEPT ![CredUser(loginCred)] = {"viewer"}]
           ELSE UNCHANGED <<registered, storeRoles>>
        /\ IF registerProceeds(q.st)
           THEN /\ req' = [req EXCEPT ![RegisterSlot] = q,
                                      ![LoginSlot] = NewRequest(client.header)]
                /\ loginPc' = "posting"
                /\ UNCHANGED loginCred
           ELSE /\ req' = [req EXCEPT ![RegisterSlot] = q]
                /\ loginPc' = "rejected"
                /\ loginCred' = "none"
  /\ UNCHANGED <<client, call, logoutBody, initPc, registry, nextTok,
                 expiredUpTo, redeemed, doubleSpent, logoutRevoked, owner,
                 claims, roleChangedAt, pairCap, form, gate, pageVars>>

\* the response to /auth/login reaches login()
LoginResponse ==
  /\ req[LoginSlot].st = "sent"
  /\ loginPc = "posting"
  /\ LET status == LoginStatus(loginCred)
         q == InterceptedRequest(LoginSlot, status)
     IN IF q.st = "ok"
        THEN /\ nextTok <= pairCap
             /\ registry' = [registry EXCEPT ![nextTok] = "valid"]
             /\ owner' = [owner EXCEPT ![nextTok] = CredUser(loginCred)]
             /\ claims' = [claims EXCEPT ![nextTok] = storeRoles[CredUser(loginCred)]]
             /\ nextTok' = nextTok + 1
             /\ client' = persistTokens(client, nextTok)
             /\ req' = [req EXCEPT ![LoginSlot] = q,
                                   ![MeSlot] = NewRequest(client'.header)]
             /\ loginPc' = "me"
             /\ UNCHANGED loginCred
        ELSE /\ req' = [req EXCEPT ![LoginSlot] = q]
             /\ loginPc' = "rejected"
             /\ loginCred' = "none"
             /\ UNCHANGED <<client, registry, nextTok, owner, claims>>
  /\ UNCHANGED <<call, logoutBody, initPc, expiredUpTo, redeemed, doubleSpent,
                 logoutRevoked, storeVars, pairCap, form, gate, pageVars>>

\* the response to /auth/me reaches the interceptor, then its caller: the
\* init effect while loading, login() otherwise
MeResponse ==
  /\ req[MeSlot].st \in {"sent", "retried"}
  /\ LET q == InterceptedRequest(MeSlot, MeStatus(req[MeSlot].auth))
     IN /\ req' = [req EXCEPT ![MeSlot] = q]
        /\ call' = [call EXCEPT ![MeSlot] =
                      InterceptedCall(MeSlot, MeStatus(req[MeSlot].auth))]
        /\ IF loading
           THEN /\ client' = IF q.st = "ok"
                             THEN [client EXCEPT !.user = Profile(req[MeSlot].auth)]
                             ELSE IF q.st = "rejected" THEN InitFailed(client)
                             ELSE client
                /\ initPc' = IF q.st \in {"ok", "rejected"} THEN "done" ELSE initPc
                /\ UNCHANGED <<loginPc, loginCred>>
           ELSE /\ client' = IF q.st = "ok"
                             THEN [client EXCEPT !.user = Profile(req[MeSlot].auth)]
                             ELSE client
                /\ loginPc' = IF q.st = "ok" THEN "resolved"
                              ELSE IF q.st = "rejected" THEN "rejected"
                              ELSE loginPc
                /\ loginCred' = IF q.st = "rejected" THEN "none" ELSE loginCred
                /\ UNCHANGED initPc
  /\ UNCHANGED <<logoutBody, serverVars, pairCap, form, gate, pageVars>>

\* the response to a catalog request reaches the interceptor
ApiResponse(r) ==
  /\ r \in ApiSlots
  /\ req[r].st \in {"sent", "retried"}
  /\ \E status \in ApiStatuses(req[r].auth) :
       /\ req' = [req EXCEPT ![r] = InterceptedRequest(r, status)]
       /\ call' = [call EXCEPT ![r] = InterceptedCall(r, status)]
  /\ UNCHANGED <<client, loginPc, loginCred, logoutBody, initPc, serverVars,
                 pairCap, form, gate, pageVars>>

\* /auth/logout is served and its response reaches the interceptor
LogoutResponse ==
  /\ req[LogoutSlot].st \in {"sent", "retried"}
  /\ LET status == LogoutStatus(req[LogoutSlot].auth)
     IN /\ req' = [req EXCEPT ![LogoutSlot] = InterceptedRequest(LogoutSlot, status)]
        /\ call' = [call EXCEPT ![LogoutSlot] = InterceptedCall(LogoutSlot, status)]
        /\ IF status = 200
           THEN /\ registry' = RegistryAfterRevoke(registry, logoutBody)
                /\ logoutRevoked' = logoutRevoked \cup {logoutBody}
           ELSE UNCHANGED <<registry, logoutRevoked>>
  /\ UNCHANGED <<client, loginPc, loginCred, logoutBody, initPc, nextTok,
                 expiredUpTo, redeemed, doubleSpent, owner, claims, storeVars,
                 pairCap, form, gate, pageVars>>

\* ---- the refresh call ----

\* the Refresh Registry serves the /auth/refresh call started for request r;
\* the new access token carries the roles the store holds now
ServerRefresh(r) ==
  /\ r \in RefreshSlots
  /\ call[r].cst = "sent"
  /\ LET t == call[r].token
         outcome == RedeemOutcome(registry, t)
     IN IF outcome = "ok"
        THEN /\ nextTok <= pairCap
             /\ registry' = RegistryAfterRedeem(registry, t, nextTok)
             /\ owner' = [owner EXCEPT ![nextTok] = owner[t]]
             /\ claims' = [claims EXCEPT ![nextTok] = storeRoles[owner[t]]]
             /\ nextTok' = nextTok + 1
             /\ redeemed' = redeemed \cup {t}
             /\ doubleSpent' = IF t \in redeemed THEN doubleSpent \cup {t}
                                ELSE doubleSpent
             /\ call' = [call EXCEPT ![r].cst = "answered", ![r].pair = nextTok]
        ELSE /\ call' = [call EXCEPT ![r].cst = "answered", ![r].why = outcome]
             /\ UNCHANGED <<registry, nextTok, redeemed, doubleSpent, owner,
                            claims>>
  /\ UNCHANGED <<client, req, loginPc, loginCred, logoutBody, initPc,
                 expiredUpTo, logoutRevoked, storeVars, pairCap, form, gate, pageVars>>

\* the /auth/refresh call fails in the network before reaching the server
RefreshNetworkError(r) ==
  /\ r \in RefreshSlots
  /\ call[r].cst = "sent"
  /\ call' = [call EXCEPT ![r].cst = "answered", ![r].why = "Network"]
  /\ UNCHANGED <<client, req, loginPc, loginCred, logoutBody, initPc,
                 serverVars, pairCap, form, gate, pageVars>>

\* the /auth/refresh call or its response is lost: no response ever arrives
RefreshLost(r) ==
  /\ r \in RefreshSlots
  /\ call[r].cst = "sent"
  /\ call' = [call EXCEPT ![r].cst = "lost"]
  /\ UNCHANGED <<client, req, loginPc, loginCred, logoutBody, initPc,
                 serverVars, pairCap, form, gate, pageVars>>

\* the response to /auth/refresh reaches the interceptor (as the response
\* of a request to /auth/refresh), then refreshAccessToken, then the
\* interceptor that awaited it for request r
RefreshResponse(r) ==
  /\ r \in RefreshSlots
  /\ call[r].cst = "answered"
  /\ IF call[r].pair # NoToken
     THEN /\ call' = [call EXCEPT ![r].cst = "done"]
          /\ client' = persistTokens(client, call[r].pair)
          /\ req' = [req EXCEPT
                       ![r].st = "retried",
                       ![r].auth = RetryAuthorization(call[r].pair, req[r].auth),
                       ![r].sends = @ + 1]
          /\ UNCHANGED <<loginPc, loginCred, logoutBody, initPc>>
     ELSE IF ShouldRefresh(RefreshStatus(call[r].why), "/auth/refresh",
                           client.refreshTokenRef, FALSE)
     THEN \* the failed refresh call enters the refresh path itself
          /\ call' = [call EXCEPT
                        ![r] = [NewCall(client.refreshTokenRef) EXCEPT
                                  !.nested = TRUE]]
          /\ UNCHANGED <<client, req, loginPc, loginCred, logoutBody, initPc>>
     ELSE LET refreshToken == client.refreshTokenRef
              rejected == [req EXCEPT
                             ![r].st = "rejected",
                             ![r].auth = NoToken,
                             ![r].err = RejectedError("request401", "refreshError")]
              ofInit == r = MeSlot /\ loading
              ofLogin == r = MeSlot /\ ~loading
          IN /\ call' = [call EXCEPT ![r].cst = "done"]
             /\ client' = IF ofInit THEN InitFailed(RefreshFailed(client))
                          ELSE RefreshFailed(client)
             /\ IF handleLogoutNotifies(FALSE, refreshToken)
                THEN /\ req' = [rejected EXCEPT
                                  ![LogoutSlot] = NewRequest(client'.header)]
                     /\ logoutBody' = refreshToken
                ELSE /\ req' = rejected
                     /\ UNCHANGED logoutBody
             /\ loginPc' = IF ofLogin THEN "rejected" ELSE loginPc
             /\ loginCred' = IF ofLogin THEN "none" ELSE loginCred
             /\ initPc' = IF ofInit THEN "done" ELSE initPc
  /\ UNCHANGED <<serverVars, pairCap, form, gate, pageVars>>

\* ---- the Credential Store ----

\* an administrator replaces the role assignments of user u
ChangeRole(u, roles) ==
  /\ u \in registered
  /\ storeRoles[u] # roles
  /\ storeRoles' = [storeRoles EXCEPT ![u] = roles]
  /\ roleChangedAt' = nextTok
  /\ UNCHANGED <<client, req, call, loginPc, loginCred, logoutBody, initPc,
                 registry, nextTok, expiredUpTo, redeemed, doubleSpent,
                 logoutRevoked, owner, claims, registered, pairCap, form, gate, pageVars>>

\* ---- time ----

\* the oldest live access token passes its expiry
Expire ==
  /\ expiredUpTo + 1 < nextTok
  /\ expiredUpTo' = expiredUpTo + 1
  /\ UNCHANGED <<client, req, call, loginPc, loginCred, logoutBody, initPc,
                 registry, nextTok, redeemed, doubleSpent, logoutRevoked,
                 owner, claims, storeVars, pairCap, form, gate, pageVars>>

\* ---- the session of one registered user ----

Next ==
  \/ Hydrate
  \/ \E cred \in {"good", "bad"} : Login(cred)
  \/ \E r \in ApiSlots : Send(r)
  \/ Logout
  \/ LoginResponse
  \/ MeResponse
  \/ \E r \in ApiSlots : ApiResponse(r)
  \/ LogoutResponse
  \/ \E r \in RefreshSlots : ServerRefresh(r)
  \/ \E r \in RefreshSlots : RefreshNetworkError(r)
  \/ \E r \in RefreshSlots : RefreshLost(r)
  \/ \E r \in RefreshSlots : RefreshResponse(r)
  \/ Expire

Spec == Init /\ [][Next]_vars

\* The event loop runs every handler whose response has arrived, and the
\* server answers every request that reaches it; the user's actions, the
\* passing of time and the loss of a call in the network are not forced.
Fairness ==
  /\ WF_vars(Hydrate)
  /\ WF_vars(LoginResponse)
  /\ WF_vars(MeResponse)
  /\ WF_vars(LogoutResponse)
  /\ \A r \in ApiSlots : WF_vars(ApiResponse(r))
  /\ \A r \in RefreshSlots : WF_vars(ServerRefresh(r) \/ RefreshNetworkError(r))
  /\ \A r \in RefreshSlots : WF_vars(RefreshResponse(r))

FairSpec == Spec /\ Fairness

\* ---- the session that starts over the durable storage of an earlier one ----

\* Durable storage holds what an earlier page left: the pair 1, written under
\* both keys by persistTokens.  That pair's access token may have expired and its refresh token may
\* have been redeemed since.
StoredInit ==
  /\ Mounted(1, 1)
  /\ StoreInit
  /\ registry \in {[t \in Tokens |-> IF t = 1 THEN s ELSE "absent"] :
                     s \in {"valid", "revoked"}}
  /\ owner = [t \in Tokens |-> IF t = 1 THEN TheUser ELSE Nobody]
  /\ claims = [t \in Tokens |-> IF t = 1 THEN {"viewer"} ELSE {}]
  /\ nextTok = 2
  /\ expiredUpTo \in {0, 1}
  /\ redeemed = {}
  /\ doubleSpent = {}
  /\ logoutRevoked = {}
  /\ pairCap = MaxPairs
  /\ gate = GateInit

BootInit == Init \/ StoredInit

BootSpec == BootInit /\ [][Next]_vars

\* ---- two accounts on one browser ----
\* The second account registers and signs in while the first one's session
\* is live; nobody logs out and no call is lost.

SwitchInit ==
  /\ Mounted(NoToken, NoToken)
  /\ StoreInit
  /\ ServerInit
  /\ pairCap = SwitchPairs
  /\ gate = GateInit

SwitchNext ==
  \/ Hydrate
  \/ Login("good")
  \/ Register("other")
  \/ Send(1)
  \/ RegisterResponse
  \/ LoginResponse
  \/ MeResponse
  \/ ApiResponse(1)
  \/ \E r \in {1, MeSlot} : ServerRefresh(r)
  \/ \E r \in {1, MeSlot} : RefreshResponse(r)
  \/ Expire

SwitchSpec == SwitchInit /\ [][SwitchNext]_vars

\* ---- a role change during a session ----
\* An administrator makes the viewer an editor; nobody logs out and no call
\* is lost.

RoleNext ==
  \/ Hydrate
  \/ Login("good")
  \/ \E r \in ApiSlots : Send(r)
  \/ LoginResponse
  \/ MeResponse
  \/ \E r \in ApiSlots : ApiResponse(r)
  \/ \E r \in RefreshSlots : ServerRefresh(r)
  \/ \E r \in RefreshSlots : RefreshResponse(r)
  \/ ChangeRole(TheUser, {"editor"})
  \/ Expire

RoleSpec == Init /\ [][RoleNext]_vars

\* ---- a returning user logs out ----
\* The session starts over the pair an earlier page stored; nobody logs in,
\* and the Token Issuer has a pair for every refresh call that can follow.

LogoutInit ==
  /\ Mounted(1, 1)
  /\ StoreInit
  /\ registry = [t \in Tokens |-> IF t = 1 THEN "valid" ELSE "absent"]
  /\ owner = [t \in Tokens |-> IF t = 1 THEN TheUser ELSE Nobody]
  /\ claims = [t \in Tokens |-> IF t = 1 THEN {"viewer"} ELSE {}]
  /\ nextTok = 2
  /\ expiredUpTo \in {0, 1}
  /\ redeemed = {}
  /\ doubleSpent = {}
  /\ logoutRevoked = {}
  /\ pairCap = MaxPairs + 1
  /\ gate = GateInit

LogoutNext ==
  \/ Hydrate
  \/ \E r \in ApiSlots : Send(r)
  \/ Logout
  \/ MeResponse
  \/ \E r \in ApiSlots : ApiResponse(r)
  \/ LogoutResponse
  \/ \E r \in RefreshSlots : ServerRefresh(r)
  \/ \E r \in RefreshSlots : RefreshNetworkError(r)
  \/ \E r \in RefreshSlots : RefreshResponse(r)
  \/ Expire

LogoutSpec == LogoutInit /\ [][LogoutNext]_vars

\* ---- startup, every call answered ----
\* The page is opened over an empty storage or over the pair an earlier page
\* stored; no call is lost in the network, nobody logs in.

HydrateFairness ==
  /\ WF_vars(Hydrate)
  /\ WF_vars(MeResponse)
  /\ WF_vars(ServerRefresh(MeSlot) \/ RefreshNetworkError(MeSlot))
  /\ WF_vars(RefreshResponse(MeSlot))

HydrateSpec == BootInit /\ [][LogoutNext]_vars /\ HydrateFairness

\* ---- registration ----
\* A new account is registered, or an email that is registered already is
\* tried; the registered user may be logged in meanwhile.

RegisterNext ==
  \/ Hydrate
  \/ \E cred \in {"good", "other"} : Register(cred)
  \/ Login("good")
  \/ Logout
  \/ RegisterResponse
  \/ LoginResponse
  \/ MeResponse
  \/ LogoutResponse
  \/ Expire

RegisterSpec == Init /\ [][RegisterNext]_vars

\* ---- the review form ----

\* a star is clicked
SetRating(n) ==
  /\ form' = [form EXCEPT !.rating = n]
  /\ UNCHANGED <<sessionVars, gate, pageVars>>

\* the course <select> changes
SetCourse(c) ==
  /\ form' = resetModerationFeedback([form EXCEPT !.courseId = c])
  /\ UNCHANGED <<sessionVars, gate, pageVars>>

\* the description <textarea> changes by a key stroke: a character is typed
\* at its end or its last character is deleted
SetDescription(d) ==
  /\ \/ /\ Len(d) = Len(form.description) + 1
        /\ SubSeq(d, 1, Len(form.description)) = form.description
     \/ /\ Len(d) + 1 = Len(form.description)
        /\ SubSeq(form.description, 1, Len(d)) = d
  /\ form' = resetModerationFeedback([form EXCEPT !.description = d])
  /\ UNCHANGED <<sessionVars, gate, pageVars>>

\* handleSubmit up to its first await.  The submit button is disabled
\* while submitting.
Submit ==
  /\ ~form.submitting
  /\ form' =
       IF form.rating = 0
       THEN [form EXCEPT !.error = "Please select a rating"]
       ELSE IF form.courseId = ""
       THEN [form EXCEPT !.error = "Please select a course"]
       ELSE IF DescriptionTooShort(form.description)
       THEN [form EXCEPT !.error = "Description must be at least 10 characters"]
       ELSE [resetModerationFeedback(form) EXCEPT
               !.submitting = TRUE,
               !.error = "none",
               !.pc = "moderating",
               !.reviewData = Payload(form),
               !.moderated = Payload(form),
               !.created = NoPayload,
               !.verdict = NoFeedback,
               !.submitted = FALSE]
  /\ UNCHANGED <<sessionVars, gate, pageVars>>

\* moderateReview resolves with a verdict: a veto is kept, else
\* createReview(reviewData) is posted
ModerationVerdict(v) ==
  /\ form.pc = "moderating"
  /\ form' = IF ~v.allowed
             THEN [form EXCEPT !.moderationFeedback = v, !.verdict = v,
                               !.submitting = FALSE, !.pc = "idle"]
             ELSE [form EXCEPT !.pc = "creating",
                               !.created = CreateReviewBody(form)]
  /\ UNCHANGED <<sessionVars, gate, pageVars>>

\* moderateReview rejects
ModerationError(e) ==
  /\ form.pc = "moderating"
  /\ form' = [HandleError(form, e) EXCEPT
                !.verdict = IF IsVeto(e) THEN e.verdict ELSE @]
  /\ UNCHANGED <<sessionVars, gate, pageVars>>

\* createReview resolves: onSubmit()
CreateOk ==
  /\ form.pc = "creating"
  /\ form' = [form EXCEPT !.submitted = TRUE, !.submitting = FALSE,
                          !.pc = "idle"]
  /\ UNCHANGED <<sessionVars, gate, pageVars>>

\* createReview rejects
CreateError(e) ==
  /\ form.pc = "creating"
  /\ form' = HandleError(form, e)
  /\ UNCHANGED <<sessionVars, gate, pageVars>>

\* applyModerationSuggestion, from the "Use suggestion" button
ApplySuggestion ==
  /\ ~form.submitting
  /\ SuggestionButtonShown(form)
  /\ form' = [form EXCEPT !.description = form.moderationFeedback.suggestion,
                          !.moderationFeedback = NoFeedback]
  /\ UNCHANGED <<sessionVars, gate, pageVars>>

FormNext ==
  \/ \E n \in Ratings : SetRating(n)
  \/ \E c \in CourseOptions : SetCourse(c)
  \/ \E d \in Descriptions : SetDescription(d)
  \/ Submit
  \/ \E v \in {Allowed} \cup Vetoes : ModerationVerdict(v)
  \/ \E e \in ErrorResponses : ModerationError(e)
  \/ CreateOk
  \/ \E e \in ErrorResponses : CreateError(e)
  \/ ApplySuggestion

FormSpec == Init /\ [][FormNext]_vars

\* ---- role checks, for every caller and every operation ----

GateInputs ==
  {[GateInit EXCEPT !.user = u, !.required = R, !.method = m, !.resource = x,
                    !.loading = l] :
     u \in Callers, R \in SUBSET Roles, m \in Methods, x \in Resources,
     l \in BOOLEAN}

AuthzInit ==
  /\ Mounted(NoToken, NoToken)
  /\ StoreInit
  /\ ServerInit
  /\ pairCap = MaxPairs
  /\ gate \in GateInputs

\* hasRole(...roles) is asked
CheckHasRole ==
  /\ gate.client = "none"
  /\ gate' = [gate EXCEPT
                !.client = IF hasRole(gate.user, gate.required)
                           THEN "allow" ELSE "deny"]
  /\ UNCHANGED <<sessionVars, form, pageVars>>

\* the gate answers the operation
Authorize ==
  /\ gate.server = "none"
  /\ gate' = [gate EXCEPT
                !.server = GateDecision(gate.user, gate.method, gate.resource)]
  /\ UNCHANGED <<sessionVars, form, pageVars>>

\* RequireRole renders for the roles its route lists
RenderRequireRole ==
  /\ gate.route = "none"
  /\ gate' = [gate EXCEPT
                !.route = RequireRole(gate.loading, gate.user,
                                      hasRole(gate.user, gate.required))]
  /\ UNCHANGED <<sessionVars, form, pageVars>>

AuthzNext == CheckHasRole \/ Authorize \/ RenderRequireRole

AuthzSpec == AuthzInit /\ [][AuthzNext]_vars

\* ---- the teacher page ----
\* App mounts the page once AuthProvider has stopped loading.

\* loadTeacherData: both requests are answered
TeacherLoaded ==
  /\ ~loading
  /\ teacherPage.loading
  /\ teacherPage' = [teacherPage EXCEPT !.teacher = TheTeacher,
                                        !.error = "none", !.loading = FALSE]
  /\ UNCHANGED <<sessionVars, form, gate, loginPage, registerPage, admin,
                 backend>>

\* loadTeacherData: a request fails
TeacherLoadFailed ==
  /\ ~loading
  /\ teacherPage.loading
  /\ teacherPage' =
       [teacherPage EXCEPT
          !.error = "Failed to load teacher data. Please try again later.",
          !.loading = FALSE]
  /\ UNCHANGED <<sessionVars, form, gate, loginPage, registerPage, admin,
                 backend>>

\* the "+ Add Review" / "Cancel" button of the reviews header: ReviewForm is
\* mounted or unmounted
ToggleReviewForm ==
  /\ ReviewsSectionShown(teacherPage)
  /\ teacherPage' = [teacherPage EXCEPT !.showReviewForm = ~@]
  /\ form' = FormInit
  /\ UNCHANGED <<sessionVars, gate, loginPage, registerPage, admin, backend>>

\* onCancel of ReviewForm
CancelReviewForm ==
  /\ teacherPage.showReviewForm
  /\ ~form.submitting
  /\ teacherPage' = [teacherPage EXCEPT !.showReviewForm = FALSE]
  /\ form' = FormInit
  /\ UNCHANGED <<sessionVars, gate, loginPage, registerPage, admin, backend>>

\* handleReviewSubmitted: ReviewForm calls onSubmit when createReview has
\* succeeded
ReviewSubmitted ==
  /\ teacherPage.showReviewForm
  /\ teacherPage' = [teacherPage EXCEPT !.showReviewForm = FALSE,
                                        !.loading = TRUE]
  /\ form' = FormInit
  /\ UNCHANGED <<sessionVars, gate, loginPage, registerPage, admin, backend>>

\* a visitor who may sign in and out looks at the teacher page
TeacherNext ==
  \/ Hydrate
  \/ Login("good")
  \/ LoginResponse
  \/ MeResponse
  \/ Logout
  \/ LogoutResponse
  \/ TeacherLoaded
  \/ TeacherLoadFailed
  \/ ToggleReviewForm
  \/ CancelReviewForm
  \/ ReviewSubmitted

TeacherSpec == Init /\ [][TeacherNext]_vars

\* ---- the login page ----

LoginSetEmail(e) ==
  /\ ~loginPage.navigated
  /\ KeyStroke(loginPage.email, e)
  /\ loginPage' = [loginPage EXCEPT !.email = e]
  /\ UNCHANGED <<sessionVars, form, gate, teacherPage, registerPage, admin,
                 backend>>

\* the password field changes; a password is taken as a whole
LoginSetPassword(p) ==
  /\ ~loginPage.navigated
  /\ p # loginPage.password
  /\ loginPage' = [loginPage EXCEPT !.password = p]
  /\ UNCHANGED <<sessionVars, form, gate, teacherPage, registerPage, admin,
                 backend>>

\* handleSubmit up to its await.  The fields are required, and the submit
\* button is disabled while submitting.
LoginSubmit ==
  /\ ~loginPage.navigated
  /\ ~loginPage.submitting
  /\ loginPage.email # <<>>
  /\ loginPage.password # ""
  /\ loginPage' = [loginPage EXCEPT
                     !.error = "none",
                     !.submitting = TRUE,
                     !.pc = "awaiting",
                     !.called = [email |-> Trim(loginPage.email),
                                 password |-> loginPage.password],
                     !.outcome = "none"]
  /\ UNCHANGED <<sessionVars, form, gate, teacherPage, registerPage, admin,
                 backend>>

\* login() resolves
LoginResolved ==
  /\ loginPage.pc = "awaiting"
  /\ loginPage' = LoginSettled(loginPage, TRUE, "plain")
  /\ UNCHANGED <<sessionVars, form, gate, teacherPage, registerPage, admin,
                 backend>>

\* login() rejects
LoginRejected(e) ==
  /\ loginPage.pc = "awaiting"
  /\ loginPage' = LoginSettled(loginPage, FALSE, e)
  /\ UNCHANGED <<sessionVars, form, gate, teacherPage, registerPage, admin,
                 backend>>

\* the visitor comes back to /login: a new LoginPage is mounted
LoginMount ==
  /\ loginPage.navigated
  /\ loginPage' = LoginPageInit
  /\ UNCHANGED <<sessionVars, form, gate, teacherPage, registerPage, admin,
                 backend>>

LoginPageNext ==
  \/ \E e \in Emails : LoginSetEmail(e)
  \/ \E p \in Passwords : LoginSetPassword(p)
  \/ LoginSubmit
  \/ LoginResolved
  \/ \E e \in AuthErrors : LoginRejected(e)
  \/ LoginMount

LoginPageSpec == Init /\ [][LoginPageNext]_vars

\* ---- the register page ----

RegisterSetEmail(e) ==
  /\ ~registerPage.navigated
  /\ KeyStroke(registerPage.email, e)
  /\ registerPage' = [registerPage EXCEPT !.email = e]
  /\ UNCHANGED <<sessionVars, form, gate, teacherPage, loginPage, admin,
                 backend>>

RegisterSetPassword(p) ==
  /\ ~registerPage.navigated
  /\ p # registerPage.password
  /\ registerPage' = [registerPage EXCEPT !.password = p]
  /\ UNCHANGED <<sessionVars, form, gate, teacherPage, loginPage, admin,
                 backend>>

RegisterSetConfirmPassword(p) ==
  /\ ~registerPage.navigated
  /\ p # registerPage.confirmPassword
  /\ registerPage' = [registerPage EXCEPT !.confirmPassword = p]
  /\ UNCHANGED <<sessionVars, form, gate, teacherPage, loginPage, admin,
                 backend>>

\* handleSubmit up to its await, or to its return when the passwords differ
RegisterSubmit ==
  /\ ~registerPage.navigated
  /\ ~registerPage.submitting
  /\ registerPage.email # <<>>
  /\ registerPage.password # ""
  /\ registerPage.confirmPassword # ""
  /\ registerPage' =
       IF PasswordsDiffer(registerPage.password, registerPage.confirmPassword)
       THEN [registerPage EXCEPT !.error = "Passwords do not match.",
                                 !.called = NoCredentials,
                                 !.outcome = "none"]
       ELSE [registerPage EXCEPT
               !.error = "none",
               !.submitting = TRUE,
               !.pc = "awaiting",
               !.called = [email |-> Trim(registerPage.email),
                           password |-> registerPage.password],
               !.outcome = "none"]
  /\ UNCHANGED <<sessionVars, form, gate, teacherPage, loginPage, admin,
                 backend>>

\* register() resolves
RegisterResolved ==
  /\ registerPage.pc = "awaiting"
  /\ registerPage' = RegisterSettled(registerPage, TRUE, "plain")
  /\ UNCHANGED <<sessionVars, form, gate, teacherPage, loginPage, admin,
                 backend>>

\* register() rejects
RegisterRejected(e) ==
  /\ registerPage.pc = "awaiting"
  /\ registerPage' = RegisterSettled(registerPage, FALSE, e)
  /\ UNCHANGED <<sessionVars, form, gate, teacherPage, loginPage, admin,
                 backend>>

\* the visitor comes back to /register: a new RegisterPage is mounted
RegisterMount ==
  /\ registerPage.navigated
  /\ registerPage' = RegisterPageInit
  /\ UNCHANGED <<sessionVars, form, gate, teacherPage, loginPage, admin,
                 backend>>

RegisterPageNext ==
  \/ \E e \in Emails : RegisterSetEmail(e)
  \/ \E p \in Passwords : RegisterSetPassword(p)
  \/ \E p \in Passwords : RegisterSetConfirmPassword(p)
  \/ RegisterSubmit
  \/ RegisterResolved
  \/ \E e \in AuthErrors : RegisterRejected(e)
  \/ RegisterMount

RegisterPageSpec == Init /\ [][RegisterPageNext]_vars

\* ---- the admin dashboard ----
\* While loading the dashboard renders no tab, so no handler can be invoked.

\* loadData: the five requests are answered
AdminLoaded ==
  /\ admin.loading
  /\ admin' = [admin EXCEPT
                 !.teachers = TeacherList(backend.teachers),
                 !.courses = backend.courses,
                 !.reviews = backend.reviews,
                 !.roles = backend.roles,
                 !.users = backend.users,
                 !.userEdits = InitialEdits(backend.users),
                 !.expected = InitialEdits(backend.users),
                 !.statusMessage = "Dashboard data refreshed.",
                 !.loading = FALSE]
  /\ UNCHANGED <<sessionVars, form, gate, teacherPage, loginPage,
                 registerPage, backend>>

\* loadData: one of the five requests fails
AdminLoadFailed(e) ==
  /\ admin.loading
  /\ admin' = LoadFailed(admin, e)
  /\ UNCHANGED <<sessionVars, form, gate, teacherPage, loginPage,
                 registerPage, backend>>

\* the Refresh button: loadData up to its await
AdminRefresh ==
  /\ ~admin.loading
  /\ admin' = [resetStatus(admin) EXCEPT !.loading = TRUE]
  /\ UNCHANGED <<sessionVars, form, gate, teacherPage, loginPage,
                 registerPage, backend>>

\* handleDeleteTeacher up to its await; accepted is the answer to
\* window.confirm.  One deleteTeacher call per teacher is in flight.
DeleteTeacher(id, accepted) ==
  /\ ~admin.loading
  /\ id \in Listed(admin.teachers)
  /\ admin.deleting[id] # "sent"
  /\ admin' = IF ~accepted
              THEN resetStatus(admin)
              ELSE [resetStatus(admin) EXCEPT !.deleting[id] = "sent"]
  /\ UNCHANGED <<sessionVars, form, gate, teacherPage, loginPage,
                 registerPage, backend>>

\* the server deletes the teacher and deleteTeacher resolves
DeleteTeacherOk(id) ==
  /\ admin.deleting[id] = "sent"
  /\ id \in backend.teachers
  /\ backend' = [backend EXCEPT !.teachers = @ \ {id}]
  /\ admin' = [admin EXCEPT
                 !.teachers = WithoutTeacher(@, id),
                 !.statusMessage = "Teacher deleted.",
                 !.deleting[id] = "ok"]
  /\ UNCHANGED <<sessionVars, form, gate, teacherPage, loginPage,
                 registerPage>>

\* deleteTeacher rejects
DeleteTeacherFailed(id, e) ==
  /\ admin.deleting[id] = "sent"
  /\ admin' = [admin EXCEPT
                 !.teachers = AfterDeleteFailed(@, id),
                 !.errorMessage = captureError(e, "Unable to delete teacher"),
                 !.deleting[id] = "failed"]
  /\ UNCHANGED <<sessionVars, form, gate, teacherPage, loginPage,
                 registerPage, backend>>

\* a role check box of a row
ToggleUserRole(u, roleName) ==
  /\ ~admin.loading
  /\ u \in DOMAIN admin.users
  /\ admin.toggles < MaxToggles
  /\ admin' = [admin EXCEPT
                 !.userEdits[u] = ToggleRole(@, roleName),
                 !.expected[u] = ToggleRole(@, roleName),
                 !.toggles = @ + 1]
  /\ UNCHANGED <<sessionVars, form, gate, teacherPage, loginPage,
                 registerPage, backend>>

\* the Active check box of a row
ToggleUserActive(u) ==
  /\ ~admin.loading
  /\ u \in DOMAIN admin.users
  /\ admin.toggles < MaxToggles
  /\ admin' = [admin EXCEPT
                 !.userEdits[u] = ToggleActive(@),
                 !.expected[u] = ToggleActive(@),
                 !.toggles = @ + 1]
  /\ UNCHANGED <<sessionVars, form, gate, teacherPage, loginPage,
                 registerPage, backend>>

\* handleSaveUser up to its await.  One updateUser call per row is in
\* flight.
SaveUser(u) ==
  /\ ~admin.loading
  /\ u \in DOMAIN admin.users
  /\ u \in DOMAIN admin.userEdits
  /\ admin.saving[u] = "idle"
  /\ admin.saves < MaxSaves
  /\ admin' = [resetStatus(admin) EXCEPT
                 !.saving[u] = "sent",
                 !.payload[u] = UpdatePayload(admin.userEdits[u]),
                 !.saves = @ + 1]
  /\ UNCHANGED <<sessionVars, form, gate, teacherPage, loginPage,
                 registerPage, backend>>

\* the server stores the update and updateUser resolves with the row: the
\* row replaces its entry of users, and the effect on [users] runs
SaveUserOk(u) ==
  /\ admin.saving[u] = "sent"
  /\ LET data == UpdatedRow(admin.payload[u])
         users == IF u \in DOMAIN admin.users
                  THEN [admin.users EXCEPT ![u] = data]
                  ELSE admin.users
     IN /\ backend' = [backend EXCEPT !.users[u] = data]
        /\ admin' = [admin EXCEPT
                       !.users = users,
                       !.userEdits = InitialEdits(users),
                       !.expected[u] = InitialEdits(users)[u],
                       !.statusMessage = "User updated.",
                       !.saving[u] = "idle"]
  /\ UNCHANGED <<sessionVars, form, gate, teacherPage, loginPage,
                 registerPage>>

\* updateUser rejects
SaveUserFailed(u, e) ==
  /\ admin.saving[u] = "sent"
  /\ admin' = [admin EXCEPT
                 !.errorMessage = captureError(e, "Unable to update user"),
                 !.saving[u] = "idle"]
  /\ UNCHANGED <<sessionVars, form, gate, teacherPage, loginPage,
                 registerPage, backend>>

\* the teachers tab of the dashboard
AdminTeachersNext ==
  \/ AdminLoaded
  \/ \E e \in AdminErrors : AdminLoadFailed(e)
  \/ AdminRefresh
  \/ \E id \in TeacherIds, accepted \in BOOLEAN : DeleteTeacher(id, accepted)
  \/ \E id \in TeacherIds : DeleteTeacherOk(id)
  \/ \E id \in TeacherIds, e \in AdminErrors : DeleteTeacherFailed(id, e)

AdminTeachersSpec == Init /\ [][AdminTeachersNext]_vars

\* the users tab of the dashboard
AdminUsersNext ==
  \/ AdminLoaded
  \/ \E e \in AdminErrors : AdminLoadFailed(e)
  \/ AdminRefresh
  \/ \E u \in AdminUsers, roleName \in Roles : ToggleUserRole(u, roleName)
  \/ \E u \in AdminUsers : ToggleUserActive(u)
  \/ \E u \in AdminUsers : SaveUser(u)
  \/ \E u \in AdminUsers : SaveUserOk(u)
  \/ \E u \in AdminUsers, e \in AdminErrors : SaveUserFailed(u, e)

AdminUsersSpec == Init /\ [][AdminUsersNext]_vars

\* ======================= properties =======================

\* the /auth/refresh calls the client is waiting on
RefreshesInFlight == {r \in RefreshSlots : call[r].cst \in {"sent", "answered"}}

\* the /auth/refresh call of r reached the Refresh Registry and was served
Served(r) == call[r].cst \in {"answered", "done"} /\ call[r].why # "Network"

\* C1: at most one /auth/refresh call is in flight at any time; a request
\* that fails with 401 while a refresh is underway awaits that refresh
\* instead of starting a second one.
C1_SingleRefreshInFlight == Cardinality(RefreshesInFlight) <= 1

\* Scenario B has run its course: one login, both catalog requests got a 401
\* and entered the refresh path while the session held the same refresh
\* token, only the first access token has expired, nobody logged out, no
\* refresh call failed in the network and no request was refused by role.
ScenarioBDone ==
  /\ \A r \in ApiSlots : req[r].retry /\ Settled(r) /\ req[r].err # "request403"
  /\ \A r \in ApiSlots : req[r].first = 1
  /\ \A r \in ApiSlots : call[r].token = 1 /\ call[r].why # "Network"
  /\ nextTok <= 3
  /\ expiredUpTo = 1
  /\ loginPc = "resolved"
  /\ req[LogoutSlot].st = "idle"
  /\ call[MeSlot].cst = "none"

\* C2: after two parallel 401s on an expired access token exactly one refresh
\* call reaches the Refresh Registry, each request is retried exactly once,
\* both retries succeed and the session is still authenticated.
C2_ScenarioB ==
  ScenarioBDone =>
    /\ Cardinality({r \in ApiSlots : Served(r)}) = 1
    /\ \A r \in ApiSlots : req[r].st = "ok" /\ req[r].sends = 2
    /\ client.refreshTokenRef # NoToken
    /\ client.accessToken # NoToken
    /\ client.user # NoUser

\* C3: no refresh token is redeemed twice: of the redemption attempts on one
\* token identifier exactly one succeeds (revoking the token and issuing its
\* successor in one step) and every other one is refused as Revoked or
\* NotFound.
C3_NoDoubleSpend ==
  /\ doubleSpent = {}
  /\ \A r1, r2 \in RefreshSlots :
       (r1 # r2 /\ Served(r1) /\ Served(r2) /\ call[r1].token = call[r2].token)
         => ~(call[r1].pair # NoToken /\ call[r2].pair # NoToken)
  /\ \A r \in RefreshSlots :
       Served(r) =>
         /\ registry[call[r].token] = "revoked"
         /\ call[r].token \notin logoutRevoked => call[r].token \in redeemed
         /\ IF call[r].pair # NoToken
            THEN /\ call[r].token \in redeemed
                 /\ registry[call[r].pair] # "absent"
            ELSE call[r].why \in {"Revoked", "NotFound"}

\* two concurrent redemption attempts on one token: one served with a new
\* pair, the other refused as Revoked
C3_Witness ==
  \E r1, r2 \in RefreshSlots :
    /\ r1 # r2
    /\ Served(r1) /\ Served(r2)
    /\ call[r1].token = call[r2].token
    /\ call[r1].pair # NoToken
    /\ call[r2].pair = NoToken /\ call[r2].why = "Revoked"

\* C4: no request instance is sent more than twice: a request enters the
\* refresh path only on its first send, and a 401 on the retry is rejected
\* to the caller.
C4_AtMostOneRetry ==
  \A r \in Slots :
    /\ req[r].sends <= 2
    /\ req[r].st = "awaitRefresh" => req[r].sends = 1
    /\ req[r].sends = 2 => req[r].retry

\* a retried request whose retry got 401 too and was surfaced to the caller
C4_Witness ==
  \E r \in ApiSlots :
    /\ req[r].st = "rejected"
    /\ req[r].sends = 2
    /\ req[r].err = "request401"

\* the session with everything cleared: both durable-storage keys, the default
\* Authorization header, the in-memory tokens and the user
ClearedSession ==
  [storageAccess |-> NoToken, storageRefresh |-> NoToken, header |-> NoToken,
   accessToken |-> NoToken, refreshTokenRef |-> NoToken, user |-> NoUser]

\* the step in which the client handles the failure of r's refresh call
RefreshFailureStep(r) ==
  /\ call[r].cst = "answered"
  /\ call[r].pair = NoToken
  /\ call'[r].cst = "done"

\* C5: when the refresh call fails the client clears all session state and
\* sends no /auth/logout request.
C5_RefreshFailureClearsSession ==
  [][\A r \in RefreshSlots :
       RefreshFailureStep(r) =>
         /\ client' = ClearedSession
         /\ req'[LogoutSlot].st = "sent" =>
              req'[LogoutSlot] = req[LogoutSlot]]_vars

\* a refresh call has failed on a session that held tokens and a user, and
\* the session is cleared
C5_Witness ==
  \E r \in ApiSlots :
    /\ call[r].cst = "done"
    /\ call[r].pair = NoToken
    /\ call[r].token # NoToken
    /\ req[r].st = "rejected"
    /\ req[r].first # NoToken
    /\ client = ClearedSession
    /\ loginPc = "resolved"

\* the request entered the refresh path, was never retried and is rejected:
\* its refresh failed
RejectedAfterRefreshFailure(r) ==
  req[r].st = "rejected" /\ req[r].retry /\ req[r].sends = 1

\* C6: when the refresh triggered by a 401 fails, the caller of the original
\* request gets that request's own 401 error, not the error of the refresh
\* call.
C6_OriginalErrorPropagated ==
  \A r \in RefreshSlots :
    RejectedAfterRefreshFailure(r) => req[r].err = "request401"

C6_Witness ==
  \E r \in ApiSlots :
    /\ RejectedAfterRefreshFailure(r)
    /\ call[r].cst = "done"
    /\ call[r].why \in {"Revoked", "Network"}
    /\ req[r].err = "request401"

\* C7: once the /auth/logout request of a logout has been answered by the
\* server, the refresh token the session held is revoked in the Refresh
\* Registry.
C7_LogoutRevokes ==
  Settled(LogoutSlot) => registry[logoutBody] = "revoked"

\* the state of the session
SessionState ==
  IF loginPc \in {"posting", "me"} THEN "Authenticating"
  ELSE IF client.refreshTokenRef = NoToken THEN "Anonymous"
  ELSE IF \E r \in RefreshSlots : req[r].st = "awaitRefresh" THEN "Refreshing"
  ELSE "Authenticated"

\* the step is a logout: the session is cleared and no refresh call moves
LogoutStep ==
  /\ client.refreshTokenRef # NoToken
  /\ client'.refreshTokenRef = NoToken
  /\ call' = call

\* C8: the session only moves Anonymous -> Authenticating -> Authenticated,
\* Authenticated -> Refreshing -> Authenticated, Refreshing -> Anonymous on
\* refresh failure, and Authenticated -> Anonymous on logout.
C8_SessionTransitions ==
  [][\/ SessionState' = SessionState
     \/ <<SessionState, SessionState'>> \in
          {<<"Anonymous", "Authenticating">>,
           <<"Authenticating", "Authenticated">>,
           <<"Authenticated", "Refreshing">>,
           <<"Refreshing", "Authenticated">>}
     \/ /\ <<SessionState, SessionState'>> = <<"Refreshing", "Anonymous">>
        /\ \E r \in RefreshSlots : RefreshFailureStep(r)
     \/ /\ <<SessionState, SessionState'>> = <<"Authenticated", "Anonymous">>
        /\ LogoutStep]_vars

\* C9: a refresh call that never receives a response is treated as a failure
\* after a bounded time: every request awaiting it is eventually rejected.
C9_LostRefreshTimesOut ==
  \A r \in RefreshSlots :
    (call[r].cst = "lost" /\ req[r].st = "awaitRefresh")
      ~> (req[r].st = "rejected")

\* C10: on refresh success the new tokens are stored before the original
\* request is retried, and the retry carries the access token returned by the
\* refresh it awaited, never the stale one.
C10_RetryCarriesNewToken ==
  [][\A r \in RefreshSlots :
       (req[r].st = "awaitRefresh" /\ req'[r].st = "retried") =>
         /\ call[r].pair # NoToken
         /\ req'[r].auth = call[r].pair
         /\ req'[r].auth # req[r].auth
         /\ client'.storageAccess = call[r].pair
         /\ client'.storageRefresh = call[r].pair
         /\ client'.header = call[r].pair
         /\ client'.accessToken = call[r].pair
         /\ client'.refreshTokenRef = call[r].pair]_vars

\* a request first sent with an access token is being retried with the token
\* its refresh returned, which the session has stored
C10_Witness ==
  \E r \in ApiSlots :
    /\ req[r].st = "retried"
    /\ req[r].first # NoToken
    /\ req[r].auth = call[r].pair
    /\ req[r].auth # req[r].first
    /\ client.header = req[r].auth
    /\ client.storageAccess = req[r].auth

\* the URLs of the authentication endpoints the interceptor exempts
AuthUrls == {"/auth/login", "/auth/register", "/auth/refresh"}

\* C11: a 401 response to a request to /auth/login, /auth/register or
\* /auth/refresh never starts a refresh call and is never retried; it is
\* rejected to the caller directly, and a failing refresh never starts
\* another refresh.
C11_AuthRoutesExempt ==
  /\ \A url \in AuthUrls, retry \in BOOLEAN :
       ~ShouldRefresh(401, url, client.refreshTokenRef, retry)
  /\ \A r \in {LoginSlot, RegisterSlot} :
       /\ req[r].st \notin {"awaitRefresh", "retried"}
       /\ ~req[r].retry
       /\ req[r].sends <= 1
       /\ req[r].err = "request401" => req[r].st = "rejected"
  /\ \A r \in RefreshSlots : ~call[r].nested

\* a login was refused with 401 while the session held a refresh token
C11_Witness ==
  /\ req[LoginSlot].st = "rejected"
  /\ req[LoginSlot].err = "request401"
  /\ req[LoginSlot].sends = 1
  /\ client.refreshTokenRef # NoToken

\* the access token in durable storage, the default header and the one in
\* memory agree, and so do the refresh token in durable storage and the one
\* in memory
TokensAgree ==
  /\ client.storageAccess = client.header
  /\ client.header = client.accessToken
  /\ client.storageRefresh = client.refreshTokenRef

\* C13: once the startup effect has run, and after every login, refresh,
\* refresh failure and logout, the access token in durable storage, the
\* default Authorization header and the in-memory access token agree, and
\* the refresh token in durable storage agrees with the in-memory one.
C13_TokensAgree == initPc # "mount" => TokensAgree

\* C13 happens: a session that has run the startup effect holds a pair issued
\* by a later refresh, in storage, header and memory alike
C13_Witness ==
  /\ initPc = "done"
  /\ client.user # NoUser
  /\ client.accessToken = 2
  /\ client.storageAccess = 2
  /\ client.header = 2
  /\ client.storageRefresh = 2
  /\ client.refreshTokenRef = 2

\* error statuses other than 401
OtherStatuses == {400, 403, 404, 422, 500}

\* C16: only a 401 response starts the refresh-and-retry path; a response
\* with any other error status is rejected to the caller as it is, with no
\* refresh call and no retry.
C16_OnlyUnauthorizedRefreshes ==
  /\ \A status \in OtherStatuses, r \in Slots, retry \in BOOLEAN :
       ~ShouldRefresh(status, Url(r), client.refreshTokenRef, retry)
  /\ \A r \in ApiSlots :
       /\ req[r].st = "awaitRefresh" => ~AccessValid(req[r].auth)
       /\ req[r].err = "request403" => req[r].st = "rejected"
       /\ (req[r].err = "request403" /\ req[r].sends = 1) =>
            (~req[r].retry /\ call[r].cst = "none")

\* a request was refused by role while the session held a refresh token:
\* it is rejected with its 403, never retried, and no refresh was started
C16_Witness ==
  \E r \in ApiSlots :
    /\ req[r].st = "rejected"
    /\ req[r].err = "request403"
    /\ req[r].sends = 1
    /\ call[r].cst = "none"
    /\ client.refreshTokenRef # NoToken

C18_LoginIdentity ==
  [][/\ (loginPc = "posting" /\ loginPc' = "me") =>
          /\ client'.storageAccess = nextTok
          /\ client'.storageRefresh = nextTok
          /\ req'[MeSlot].auth = nextTok
          /\ owner'[nextTok] = CredUser(loginCred)
          /\ client'.user = client.user
     /\ (loginPc = "me" /\ loginPc' = "resolved") =>
          client'.user.id = CredUser(loginCred)
     /\ (loginPc = "registering" /\ loginPc' = "posting") =>
          /\ req'[RegisterSlot].st = "ok"
          /\ loginCred' = loginCred]_vars

\* C20: once a refresh has succeeded after a role change, the roles in the
\* new access token and the roles the client's hasRole answers from are the
\* roles the Credential Store holds.
C20_RoleChangeAfterRefresh ==
  \A r \in RefreshSlots :
    (/\ call[r].cst = "done"
     /\ call[r].pair # NoToken
     /\ roleChangedAt # 0
     /\ call[r].pair >= roleChangedAt) =>
      /\ claims[call[r].pair] = storeRoles[owner[call[r].pair]]
      /\ (client.accessToken = call[r].pair /\ client.user # NoUser) =>
           \A role \in Roles :
             hasRole(client.user, {role}) <=>
               role \in storeRoles[owner[call[r].pair]]

\* C12 (as stated): hasRole(...roles) allows exactly when the caller's roles
\* and the required roles intersect or the required set is empty, as the
\* role check of the Authorization Gate does.
C12_HasRoleIsAuthorize ==
  gate.client # "none" =>
    (gate.client = "allow" <=> authorize(gate.user.roles, gate.required))

\* C12 (amended): hasRole(...roles) is true exactly when a user is present
\* and has one of the listed roles; it agrees with the role check of the
\* Authorization Gate for every non-empty required set, and it is false
\* for the empty list, which the gate treats as public.
C12_HasRoleNonEmpty ==
  gate.client # "none" =>
    /\ gate.client = "allow" <=>
         (gate.user # NoUser /\ gate.user.roles \cap gate.required # {})
    /\ gate.required # {} =>
         (gate.client = "allow" <=> authorize(gate.user.roles, gate.required))
    /\ gate.required = {} => gate.client = "deny"

\* hasRole was asked with no role listed by a user who has roles, and
\* answered false
C12_Witness ==
  /\ gate.client = "deny"
  /\ gate.required = {}
  /\ gate.user # NoUser
  /\ gate.user.roles # {}

\* the messages of handleSubmit's validation
ValidationErrors ==
  {"Please select a rating", "Please select a course",
   "Description must be at least 10 characters"}

\* C14: a submission without a rating, without a course or with a trimmed
\* description shorter than 10 characters gets a validation error and no
\* moderation or persistence call is made for it; any other submission
\* posts its values, the description trimmed, to the moderation call.
C14_ValidationBeforeCalls ==
  [][Submit =>
       IF \/ form.rating = 0
          \/ form.courseId = ""
          \/ Len(Trim(form.description)) < MinDescriptionLength
       THEN /\ form'.error \in ValidationErrors
            /\ form'.pc = "idle"
            /\ ~form'.submitting
            /\ form'.moderated = form.moderated
            /\ form'.created = form.created
       ELSE /\ form'.pc = "moderating"
            /\ form'.submitting
            /\ form'.error = "none"
            /\ form'.moderated =
                 [teacher_id |-> TheTeacher,
                  course_id |-> CourseNumber(form.courseId),
                  rating |-> form.rating,
                  text |-> Trim(form.description)]
            /\ form'.created = NoPayload]_vars

\* a form that has never called moderation refused a description of 10
\* characters as typed that is 9 characters long once trimmed
C14_Witness ==
  /\ form.error = "Description must be at least 10 characters"
  /\ form.rating # 0
  /\ form.courseId # ""
  /\ Len(form.description) = MinDescriptionLength
  /\ Len(Trim(form.description)) = MinDescriptionLength - 1
  /\ form.moderated = NoPayload
  /\ form.pc = "idle"

C19_RoleTable ==
  gate.server # "none" =>
    LET roles == gate.user.roles
        allowed == gate.server = "ok"
    IN /\ gate.method = "GET" => allowed
       /\ (gate.method \in {"POST", "PUT"}
           /\ gate.resource \in {"teachers", "courses"}) =>
            (allowed <=> ("admin" \in roles \/ "editor" \in roles))
       /\ gate.method = "DELETE" => (allowed <=> "admin" \in roles)
       /\ (gate.method = "POST" /\ gate.resource = "reviews") =>
            (allowed <=> roles # {})
       /\ (gate.method = "PUT" /\ gate.resource = "reviews") =>
            (allowed <=> ("admin" \in roles \/ "editor" \in roles))
       /\ (gate.method = "DELETE" /\ gate.resource = "teachers"
           /\ roles = {"editor"}) => gate.server = "InsufficientRole"

\* an editor asked to delete a teacher and was refused
C19_Witness ==
  /\ gate.server = "InsufficientRole"
  /\ gate.method = "DELETE"
  /\ gate.resource = "teachers"
  /\ gate.user.roles = {"editor"}

\* C21: when the moderation call or the create call of a submission is
\* rejected with 401, the form shows the session-expired error, does not
\* invoke onSubmit, sends nothing more and is no longer submitting; the next
\* request is sent only by the user's next submit.
C21_SessionExpiredShown ==
  [][/\ \A e \in ErrorResponses :
          (e.status = 401 /\ (ModerationError(e) \/ CreateError(e))) =>
            /\ form'.error = "Your session has expired. Please log in again."
            /\ ~form'.submitted
            /\ ~form'.submitting
            /\ form'.pc = "idle"
            /\ form'.moderated = form.moderated
            /\ form'.created = form.created
     /\ (form.pc = "idle" /\ form'.pc # "idle") => Submit]_vars

\* the create call of a submission was rejected and the form shows that
\* the session has expired
C21_Witness ==
  /\ form.error = "Your session has expired. Please log in again."
  /\ form.created # NoPayload
  /\ ~form.submitted
  /\ ~form.submitting
  /\ form.pc = "idle"

\* C22: RequireRole shows the session-check indicator while loading; else
\* redirects to /login without a user; else redirects to / when the user
\* has none of the required roles; else renders its children.  Children
\* are rendered only when not loading, for a user with a required role.
C22_RequireRolePriority ==
  gate.route # "none" =>
    LET permitted == gate.user # NoUser /\ gate.user.roles \cap gate.required # {}
    IN /\ gate.loading => gate.route = "Checking your session..."
       /\ (~gate.loading /\ gate.user = NoUser) => gate.route = "/login"
       /\ (~gate.loading /\ gate.user # NoUser /\ ~permitted) => gate.route = "/"
       /\ (~gate.loading /\ permitted) => gate.route = "children"
       /\ gate.route = "children" => (~gate.loading /\ permitted)

\* RequireRole sent a user who is loaded and lacks the required roles to /
C22_Witness ==
  /\ gate.route = "/"
  /\ ~gate.loading
  /\ gate.user # NoUser
  /\ gate.user.roles # {}
  /\ gate.required # {}

\* C23: while no user is logged in the teacher page neither offers the
\* "+ Add Review" button nor shows the review form.
C23_NoReviewFormForVisitors ==
  (~loading /\ client.user = NoUser) =>
    /\ ~ReviewsSectionShown(teacherPage)
    /\ ~teacherPage.showReviewForm

\* C24: the "Use suggestion" button is shown exactly when the verdict held
\* has a suggestion and is not blocked for UNSUPPORTED_LANGUAGE; using it
\* puts the suggestion into the description and clears the verdict.
C24_UseSuggestion ==
  [][/\ SuggestionButtonShown(form) <=>
          /\ form.moderationFeedback # NoFeedback
          /\ form.moderationFeedback.suggestion # <<>>
          /\ "UNSUPPORTED_LANGUAGE" \notin form.moderationFeedback.blockedReasons
     /\ ApplySuggestion =>
          /\ form'.description = form.moderationFeedback.suggestion
          /\ form'.moderationFeedback = NoFeedback]_vars

\* the suggestion of a veto was applied: it is the description, and no
\* verdict is held
C24_Witness ==
  /\ form.verdict # NoFeedback
  /\ form.verdict.suggestion # <<>>
  /\ form.description = form.verdict.suggestion
  /\ form.moderationFeedback = NoFeedback
  /\ form.pc = "idle"

\* C25: a deleteTeacher call is sent only by a delete whose confirmation
\* was accepted; a declined one sends nothing and leaves the list; a
\* teacher leaves the list only when its call has succeeded; a failed call
\* leaves the list and records an error.
C25_DeleteAfterConfirm ==
  [][\A id \in TeacherIds :
       /\ DeleteTeacher(id, FALSE) =>
            /\ admin'.deleting = admin.deleting
            /\ admin'.teachers = admin.teachers
       /\ (admin.deleting[id] # "sent" /\ admin'.deleting[id] = "sent") =>
            DeleteTeacher(id, TRUE)
       /\ (id \in Listed(admin.teachers) /\ id \notin Listed(admin'.teachers)) =>
            /\ admin.deleting[id] = "sent"
            /\ admin'.deleting[id] = "ok"
            /\ id \notin backend'.teachers
       /\ \A e \in AdminErrors :
            DeleteTeacherFailed(id, e) =>
              /\ admin'.teachers = admin.teachers
              /\ admin'.errorMessage # "none"]_vars

\* one teacher was deleted after confirmation and left the list; the
\* delete of the other failed, and it is still listed
C25_Witness ==
  /\ admin.deleting[1] = "ok"
  /\ 1 \notin Listed(admin.teachers)
  /\ 1 \notin backend.teachers
  /\ admin.deleting[2] = "failed"
  /\ 2 \in Listed(admin.teachers)
  /\ admin.errorMessage # "none"

\* C26: saving a row sends that row's edit state, which is the state the
\* server reported for the row with every toggle made since applied.
C26_SaveSendsEdits ==
  [][\A u \in AdminUsers :
       SaveUser(u) =>
         /\ admin'.payload[u] = UpdatePayload(admin.userEdits[u])
         /\ admin'.payload[u] = UpdatePayload(admin.expected[u])]_vars

\* C27: LoginPage has navigated only if login() resolved; after a rejection
\* it shows the detail of the error, or the default message when there is
\* none, and has not navigated; once login() has settled it is no longer
\* submitting.
C27_NavigateAfterLogin ==
  /\ loginPage.navigated => loginPage.outcome = "resolved"
  /\ loginPage.pc = "awaiting" => (loginPage.submitting /\ ~loginPage.navigated)
  /\ loginPage.outcome = "detail" => loginPage.error = "detail"
  /\ loginPage.outcome \in {"list", "plain"} =>
       loginPage.error = "Unable to login with the provided credentials."
  /\ loginPage.outcome # "none" => ~loginPage.submitting

\* login() rejected with a detail: the page shows it and stays
C27_Witness ==
  /\ loginPage.outcome = "detail"
  /\ loginPage.error = "detail"
  /\ loginPage.called # NoCredentials
  /\ ~loginPage.navigated
  /\ ~loginPage.submitting

\* C28: a submit with a password and a confirmation that differ shows
\* 'Passwords do not match.', calls register() not at all and does not
\* navigate; register() is called only by a submit whose two are equal.
C28_PasswordsMustMatch ==
  [][/\ (RegisterSubmit /\ registerPage.password # registerPage.confirmPassword) =>
          /\ registerPage'.error = "Passwords do not match."
          /\ registerPage'.pc = "idle"
          /\ registerPage'.called = NoCredentials
          /\ ~registerPage'.submitting
          /\ ~registerPage'.navigated
     /\ (registerPage.pc = "idle" /\ registerPage'.pc = "awaiting") =>
          /\ registerPage.password = registerPage.confirmPassword
          /\ registerPage'.called.password = registerPage.password]_vars

\* the page refused a submit whose password and confirmation differ
C28_Witness ==
  /\ registerPage.error = "Passwords do not match."
  /\ registerPage.password # registerPage.confirmPassword
  /\ registerPage.password # ""
  /\ registerPage.confirmPassword # ""
  /\ registerPage.called = NoCredentials
  /\ registerPage.pc = "idle"
  /\ ~registerPage.navigated

\* the session holds no token: not in durable storage, not in the default
\* header, not in memory
NoTokenHeld(c) ==
  /\ c.storageAccess = NoToken
  /\ c.storageRefresh = NoToken
  /\ c.header = NoToken
  /\ c.accessToken = NoToken
  /\ c.refreshTokenRef = NoToken

\* C29: once the session holds no token, no token comes back to storage,
\* header or memory except through the response of a new login.
C29_NoTokensAfterDestroy ==
  [][(initPc = "done" /\ NoTokenHeld(client) /\ loginPc # "posting") =>
        NoTokenHeld(client')]_vars

\* C30: a user is held only together with an access token and a refresh
\* token; after startup, tokens are held only together with a user or
\* while a login is in progress.
C30_UserWithTokens ==
  /\ client.user # NoUser =>
       (client.accessToken # NoToken /\ client.refreshTokenRef # NoToken)
  /\ (initPc = "done" /\ ~NoTokenHeld(client)) =>
       (client.user # NoUser \/ loginPc \in {"registering", "posting", "me"})

\* the logout() promise settles in this step: handleLogout(true) has no call
\* to await, or the /auth/logout request it awaits is answered or rejected
LogoutSettles ==
  \/ Logout /\ ~handleLogoutNotifies(TRUE, client.refreshTokenRef)
  \/ InFlight(LogoutSlot) /\ req'[LogoutSlot].st \in {"ok", "rejected"}

\* C31: logout clears the session before /auth/logout is posted, posts it at
\* most once with the refresh token held when logout was invoked, and when
\* logout() settles (the call answered, failed or skipped) the session is
\* Anonymous: no tokens, no user.  No login is invoked in the behaviours
\* looked at.
C31_LogoutLeavesAnonymous ==
  [][/\ Logout =>
          /\ client' = ClearedSession
          /\ handleLogoutNotifies(TRUE, client.refreshTokenRef) =>
                /\ req'[LogoutSlot].auth = client'.header
                /\ req'[LogoutSlot].sends = 1
                /\ logoutBody' = client.refreshTokenRef
     /\ (loginPc = "idle" /\ LogoutSettles) =>
          /\ client' = ClearedSession
          /\ req'[LogoutSlot].sends <= 1]_vars

\* C32: when no login has been invoked, a 401 response to /auth/logout
\* starts no refresh call and no retry: the request is rejected as it is.
C32_LogoutNeverRefreshes ==
  [][(LogoutResponse /\ loginPc = "idle") =>
        /\ call'[LogoutSlot] = call[LogoutSlot]
        /\ req'[LogoutSlot].st \in {"ok", "rejected"}]_vars

\* the step in which the startup effect ends
HydrateEnds == initPc # "done" /\ initPc' = "done"

\* C33: startup ends with loading false.  It ends with the profile set and
\* both tokens held when /auth/me succeeded, after at most one retry; with
\* the session cleared, both storage keys included, when /auth/me failed;
\* and with nothing sent and nothing changed when durable storage did not
\* hold both tokens.
C33_HydrateEnds ==
  /\ <>(~loading)
  /\ [][HydrateEnds =>
          /\ req'[MeSlot].st = "ok" =>
                /\ client'.user = Profile(req[MeSlot].auth)
                /\ client'.user # NoUser
                /\ client'.accessToken # NoToken
                /\ client'.refreshTokenRef # NoToken
                /\ req'[MeSlot].sends <= 2
          /\ req'[MeSlot].st = "rejected" => client' = ClearedSession
          /\ req'[MeSlot].st \in {"ok", "rejected"}
               \/ /\ client.storageAccess = NoToken \/ client.storageRefresh = NoToken
                  /\ client' = client
                  /\ client'.user = NoUser
                  /\ \A r \in Slots : req'[r] = IdleRequest
                  /\ \A r \in RefreshSlots : call'[r] = NoCall]_vars

\* startup has ended with the profile fetched by the retry that followed a
\* refresh of the stored pair
C33_Witness ==
  /\ ~loading
  /\ req[MeSlot].st = "ok"
  /\ req[MeSlot].sends = 2
  /\ client.user # NoUser
  /\ client.storageRefresh = 2

CallPending == form.pc \in {"moderating", "creating"}

\* C35: submitting is true exactly while a moderation or create call is
\* pending; a submission starts only while it is false, a validation
\* failure leaves it false, and it is false after every outcome.
C35_OneSubmissionInFlight ==
  /\ [](form.submitting <=> CallPending)
  /\ [][/\ Submit => (~form.submitting /\ ~CallPending)
        /\ (Submit /\ form'.error \in ValidationErrors) => ~form'.submitting
        /\ (CallPending /\ ~CallPending') => ~form'.submitting]_vars

\* a submission failed with a server error and the form can be submitted
\* again
C35_Witness ==
  /\ form.moderated # NoPayload
  /\ form.error = "Failed to submit review. Please try again."
  /\ ~form.submitting
  /\ form.pc = "idle"

\* C36: the login request of register is posted in the step in which
\* /auth/register has succeeded, never before; when /auth/register fails no
\* login request is posted, the session is left as it is (no tokens stored,
\* no user set) and register() rejects with the error of that request.
C36_RegisterThenLogin ==
  /\ [](loginPc = "registering" => req[LoginSlot].st # "sent")
  /\ [][RegisterResponse =>
          IF RegisterStatus(loginCred) = 200
          THEN /\ req'[RegisterSlot].st = "ok"
               /\ req'[LoginSlot] = NewRequest(client.header)
               /\ loginPc' = "posting"
               /\ loginCred' = loginCred
               /\ client' = client
          ELSE /\ req'[RegisterSlot].st = "rejected"
               /\ req'[RegisterSlot].err = RequestError(RegisterStatus(loginCred))
               /\ req'[LoginSlot] = req[LoginSlot]
               /\ loginPc' = "rejected"
               /\ client' = client]_vars

\* the registration of an email that is registered already was refused:
\* register() has rejected, no login request was ever posted and the session
\* is Anonymous
C36_Witness ==
  /\ req[RegisterSlot].st = "rejected"
  /\ req[RegisterSlot].err = "request400"
  /\ loginPc = "rejected"
  /\ req[LoginSlot].st = "idle"
  /\ client = ClearedSession

\* C37: when a request of loadData fails, none of the five lists changes,
\* an error is recorded and loading ends false; when the five are answered,
\* the five lists are replaced by what the server holds and loading ends
\* false.
C37_LoadAllOrNothing ==
  [][/\ (\E e \in AdminErrors : AdminLoadFailed(e)) =>
          /\ AdminLists(admin') = AdminLists(admin)
          /\ admin'.errorMessage # "none"
          /\ ~admin'.loading
     /\ AdminLoaded =>
          /\ AdminLists(admin') =
               <<TeacherList(backend.teachers), backend.courses,
                 backend.reviews, backend.roles, backend.users>>
          /\ ~admin'.loading]_vars

\* a refresh of the loaded dashboard has failed after a teacher was
\* deleted: the lists are those shown before it, and the error is recorded
C37_Witness ==
  /\ ~admin.loading
  /\ admin.errorMessage = "err.message"
  /\ Len(admin.teachers) = MaxTeachers - 1
  /\ admin.courses # {}
  /\ admin.reviews # {}
  /\ admin.roles = Roles
  /\ admin.users = backend.users

\* C38: a save of one user's row, from the click to the answer of
\* updateUser, leaves the edit state of every other row as it is.
C38_SaveKeepsOtherEdits ==
  [][\A u \in AdminUsers :
       (SaveUser(u) \/ SaveUserOk(u)
          \/ \E e \in AdminErrors : SaveUserFailed(u, e)) =>
         \A o \in DOMAIN admin.userEdits \ {u} :
           /\ o \in DOMAIN admin'.userEdits
           /\ admin'.userEdits[o] = admin.userEdits[o]]_vars

====
